---------------------------- MODULE Spec2Model ----------------------------
(***************************************************************************)
(* A model of prom-convert: the scrape/process pipeline of the driver      *)
(* crate (driver/src/lib.rs), its exposition parser (driver/src/parse.rs)  *)
(* and the SQL normalizer of prom2sqlite (prom2sqlite/src/table.rs).       *)
(***************************************************************************)
EXTENDS Integers, Sequences, FiniteSets, TLC

(***************************************************************************)
(* Bounds of the model.                                                    *)
(***************************************************************************)
\* largest queue depth (--buffer) tried
MaxBuffer == 2
\* number of interval ticks (hence scrape tasks) of one run
MaxTicks == 3
\* number of lines of an exposition read from stdin
MaxLines == 3
\* number of families handed to the normalizer in one run
MaxExports == 3
\* the scrape timestamps the normalizer sees are 1..MaxTs
MaxTs == 2
\* the last instant of the interval's clock
MaxClock == 8
\* the longest interval between ticks
MaxPeriod == 2
\* number of connections the status server accepts in one run
MaxConns == 1

(***************************************************************************)
(* Option<T>: None is the empty sequence, Some(v) the one-element one.     *)
(***************************************************************************)
None == <<>>
Some(v) == <<v>>
IsSome(o) == o # <<>>
Unwrap(o) == o[1]

VARIABLES
    target,     \* Args::target(): "-" (stdin) or a URL
    instance,   \* the instance label handed to the writer (an Option)
    job,        \* the job label handed to the writer (an Option)
    buffer,     \* Args::buffer(): the depth of the channel
    input,      \* what stdin holds (stdin mode)
    main,       \* where run_async is: "starting", "binding", "stdin",
                \* "polling", "joining", "returned"
    tasks,      \* the collect task spawned by each tick
    queue,      \* the channel between the scrape tasks and the writer
    writer,     \* the writer task: "unspawned", "running", "exited" or
                \* "panicked"
    calls,      \* the calls the writer has made on the exporter, in order
    processed,  \* the timestamps of the entries the writer has received
    enqueued,   \* history: the timestamps of the entries accepted, in order
    bind,       \* whether Args::addr() can be bound: "ok" or "error"
    exit_code,  \* run_async's exit_code, None until it is computed
    status,     \* the ExitCode run returned, None until it returns
    served,     \* the number of status connections handed to http::serve
    events      \* history: the kinds of error the writer has logged

runvars == <<bind, exit_code, status, served, events>>

pipevars == <<target, instance, job, buffer, input, main, tasks, queue,
              writer, calls, processed, enqueued, runvars>>

VARIABLES
    cfg,        \* prom2sqlite's Args: source, --instance and --job
    db,         \* the SQLite database: one set of rows per table
    tw,         \* the TableWriter: instance, job and the four caches
    now,        \* the timestamp of the scrape being written
    nexports,   \* the number of families written so far
    resolved,   \* history: the series id every sample so far resolved to
    exported,   \* history: the names of the families written without error
    last        \* history: the last export, its result and the rows it added

sqlvars == <<cfg, db, tw, now, nexports, resolved, exported, last>>

VARIABLES
    response,   \* fetch on its own: what the target answers
    fetched     \* fetch on its own: how fetch has ended, or that it awaits
                \* the body; None before the response

fetchvars == <<response, fetched>>

VARIABLES
    clock,      \* the interval on its own: the time, in units of a tick
    period,     \* Args::interval()
    deadline,   \* the instant the interval's next tick is due
    stalled,    \* the runtime's one thread is busy outside the polling loop
    fired       \* history: the instants at which the loop took a tick

tickvars == <<clock, period, deadline, stalled, fired>>

VARIABLES
    request,    \* the status server on its own: the request received
    answer      \* the status code of the response, None before

httpvars == <<request, answer>>

VARIABLES
    builder,    \* the Parquet exporter on its own: the rows held by its
                \* RecordBatchBuilder
    file,       \* the rows its ArrowWriter has been given
    pqopen,     \* the exporter is open: created and not yet closed
    pqlog       \* history: the export calls, with what each returned

pqvars == <<builder, file, pqopen, pqlog>>

VARIABLES
    fresh       \* the caches under study: the database, and the series ids
                \* given, of a writer restarted before every export

cachevars == <<fresh>>

VARIABLES
    parsers     \* the two parsers on one input: what the fetch crate's and
                \* the driver crate's parse return, None before

parsevars == <<parsers>>

vars == <<pipevars, runvars, sqlvars, fetchvars, tickvars,
                   httpvars, cachevars, parsevars, pqvars>>

(***************************************************************************)
(* Expositions. A line of the text format is a TYPE descriptor, a HELP     *)
(* descriptor, a sample, or text the grammar does not accept.              *)
(***************************************************************************)
Line(kind, name, haslabels, labels, arg) ==
    [kind |-> kind, name |-> name, haslabels |-> haslabels,
     labels |-> labels, arg |-> arg]
TypeLine(n, t) == Line("type", n, FALSE, <<>>, t)
HelpLine(n, h) == Line("help", n, FALSE, <<>>, h)
SampleLine(n, ls, v) == Line("sample", n, ls # <<>>, ls, v)
JunkLine == Line("junk", "", FALSE, <<>>, "")

Lines ==
    { TypeLine("x", "gauge"), TypeLine("x", "histogram"), HelpLine("x", "h"),
      TypeLine("y", "gauge"),
      SampleLine("x", <<>>, "1"),
      SampleLine("x", << <<"a", "1">>, <<"b", "2">> >>, "3"),
      SampleLine("x_sum", <<>>, "4"),
      SampleLine("y", <<>>, "2"),
      JunkLine }

Bodies == UNION { [1..n -> Lines] : n \in 0..MaxLines }

\* what a scrape of the target may return (polling mode)
PollBodies ==
    { << TypeLine("x", "gauge"), SampleLine("x", <<>>, "1") >>,
      << SampleLine("x", <<>>, "1"), HelpLine("x", "h"),
         SampleLine("y", <<>>, "2") >>,
      << JunkLine >> }

(***************************************************************************)
(* The grammar (prometheus.pest): an exposition is a sequence of metric    *)
(* families, a metric family a sequence of descriptors and samples. Each   *)
(* pair carries the position of its text in the input.                     *)
(***************************************************************************)
DerivedNames(name) == { name \o "_bucket", name \o "_count", name \o "_sum" }

FamilyName(fam) == fam[1].name

RECURSIVE FamilyType(_, _)
FamilyType(fam, i) ==
    IF i = 0 THEN "untyped"
    ELSE IF fam[i].kind = "type" THEN fam[i].arg
    ELSE FamilyType(fam, i - 1)

Belongs(fam, line) ==
    \/ line.name = FamilyName(fam)
    \/ /\ line.kind = "sample"
       /\ FamilyType(fam, Len(fam)) \in {"histogram", "summary"}
       /\ line.name \in DerivedNames(FamilyName(fam))

RECURSIVE GroupLines(_, _, _)
GroupLines(lines, i, fams) ==
    IF i > Len(lines) THEN fams
    ELSE LET pair == lines[i] @@ [pos |-> i]
             n == Len(fams)
         IN  IF n > 0 /\ Belongs(fams[n], lines[i])
             THEN GroupLines(lines, i + 1,
                             [fams EXCEPT ![n] = Append(@, pair)])
             ELSE GroupLines(lines, i + 1, Append(fams, <<pair>>))

PrometheusParser_parse(lines) ==
    IF \E i \in 1..Len(lines) : lines[i].kind = "junk"
    THEN None
    ELSE Some(GroupLines(lines, 1, <<>>))

(***************************************************************************)
(* driver/src/parse.rs                                                     *)
(***************************************************************************)
MetricFamily_default ==
    [var |-> None, help |-> None, type |-> "untyped", samples |-> <<>>]

parse_metric_descriptor(self, child) ==
    IF IsSome(self.var) /\ child.name # Unwrap(self.var)
    THEN [ok |-> FALSE, mf |-> self]
    ELSE LET named == [self EXCEPT !.var = Some(child.name)]
         IN  IF child.kind = "help"
             THEN [ok |-> TRUE, mf |-> [named EXCEPT !.help = Some(child.arg)]]
             ELSE [ok |-> TRUE, mf |-> [named EXCEPT !.type = child.arg]]

OptLabel(name, opt) == IF IsSome(opt) THEN << <<name, Unwrap(opt)>> >> ELSE <<>>

parse_labels(inst, jb, labels) ==
    OptLabel("instance", inst) \o OptLabel("job", jb) \o labels

parse_sample(inst, jb, child) ==
    Some([var |-> child.name,
          labels |-> IF child.haslabels
                     THEN parse_labels(inst, jb, child.labels)
                     ELSE <<>>,
          value |-> child.arg,
          pos |-> child.pos])

\* mutant: the guard of parse.rs:65 left out
DescriptorAllowed_Always(mf) == TRUE

\* the guard of parse.rs:65: a descriptor is taken only before any sample
DescriptorAllowed(mf) == mf.samples = <<>>

RECURSIVE MetricFamily_parse_from(_, _, _, _, _)
MetricFamily_parse_from(inst, jb, pair, i, mf) ==
    IF i > Len(pair) THEN Some(mf)
    ELSE IF pair[i].kind \in {"help", "type"}
    THEN IF ~DescriptorAllowed(mf) THEN None
         ELSE LET r == parse_metric_descriptor(mf, pair[i])
              IN  IF ~r.ok THEN None
                  ELSE MetricFamily_parse_from(inst, jb, pair, i + 1, r.mf)
    ELSE LET s == parse_sample(inst, jb, pair[i])
         IN  IF s = None THEN None
             ELSE MetricFamily_parse_from(inst, jb, pair, i + 1,
                      [mf EXCEPT !.samples = Append(@, Unwrap(s))])

MetricFamily_parse(inst, jb, pair) ==
    MetricFamily_parse_from(inst, jb, pair, 1, MetricFamily_default)

\* flat_map over Option: a family that parses to None contributes nothing
RECURSIVE parse_exposition(_, _, _, _)
parse_exposition(inst, jb, fams, i) ==
    IF i > Len(fams) THEN <<>>
    ELSE MetricFamily_parse(inst, jb, fams[i])
         \o parse_exposition(inst, jb, fams, i + 1)

parse(inst, jb, lines) ==
    LET tree == PrometheusParser_parse(lines)
    IN  IF tree = None THEN None
        ELSE Some(parse_exposition(inst, jb, Unwrap(tree), 1))

\* the errors MetricFamily::parse logs on its way through a family: the
\* error! of parse.rs:66 and the one of parse_metric_descriptor
RECURSIVE MetricFamily_parse_logged(_, _, _, _, _)
MetricFamily_parse_logged(inst, jb, pair, i, mf) ==
    IF i > Len(pair) THEN {}
    ELSE IF pair[i].kind \in {"help", "type"}
    THEN IF ~DescriptorAllowed(mf)
         THEN {"Metric Descriptor after samples"}
         ELSE LET r == parse_metric_descriptor(mf, pair[i])
              IN  IF ~r.ok THEN {"metric name mismatch"}
                  ELSE MetricFamily_parse_logged(inst, jb, pair, i + 1, r.mf)
    ELSE LET s == parse_sample(inst, jb, pair[i])
         IN  IF s = None THEN {}
             ELSE MetricFamily_parse_logged(inst, jb, pair, i + 1,
                      [mf EXCEPT !.samples = Append(@, Unwrap(s))])

\* the errors a call of parse logs: the parse error of the grammar, or
\* what the families it rejects log
parse_logged(inst, jb, lines) ==
    LET tree == PrometheusParser_parse(lines)
    IN  IF tree = None THEN {"parse error"}
        ELSE UNION { MetricFamily_parse_logged(inst, jb, Unwrap(tree)[i], 1,
                                               MetricFamily_default) :
                     i \in 1..Len(Unwrap(tree)) }

(***************************************************************************)
(* fetch/src/lib.rs: the parser of the fetch crate                         *)
(***************************************************************************)
fetch_parse_labels(labels) == labels

fetch_parse_sample(child) ==
    Some([var |-> child.name,
          labels |-> IF child.haslabels
                     THEN fetch_parse_labels(child.labels)
                     ELSE <<>>,
          value |-> child.arg,
          pos |-> child.pos])

\* the loop of MetricFamily::parse from child i on: samples is the local
\* list the descriptor guard looks at, the samples go to metric_family
RECURSIVE fetch_MetricFamily_parse_from(_, _, _, _)
fetch_MetricFamily_parse_from(pair, i, metric_family, samples) ==
    IF i > Len(pair) THEN Some(metric_family)
    ELSE IF pair[i].kind \in {"help", "type"}
    THEN IF samples # <<>> THEN None
         ELSE LET r == parse_metric_descriptor(metric_family, pair[i])
              IN  IF ~r.ok THEN None
                  ELSE fetch_MetricFamily_parse_from(pair, i + 1, r.mf,
                                                     samples)
    ELSE LET s == fetch_parse_sample(pair[i])
         IN  IF s = None THEN None
             ELSE fetch_MetricFamily_parse_from(pair, i + 1,
                      [metric_family EXCEPT !.samples = Append(@, Unwrap(s))],
                      samples)

fetch_MetricFamily_parse(pair) ==
    fetch_MetricFamily_parse_from(pair, 1, MetricFamily_default, <<>>)

RECURSIVE fetch_parse_exposition(_, _)
fetch_parse_exposition(fams, i) ==
    IF i > Len(fams) THEN <<>>
    ELSE fetch_MetricFamily_parse(fams[i])
         \o fetch_parse_exposition(fams, i + 1)

fetch_parse(lines) ==
    LET tree == PrometheusParser_parse(lines)
    IN  IF tree = None THEN None
        ELSE Some(fetch_parse_exposition(Unwrap(tree), 1))

(***************************************************************************)
(* prom2sqlite/src/table.rs. A function of the TableWriter takes the state *)
(* st = [db, tw, res] and yields the state it leaves and its Result r.     *)
(***************************************************************************)
Max(S) == CHOOSE x \in S : \A y \in S : y <= x
Min(S) == CHOOSE x \in S : \A y \in S : x <= y

Ok(v) == [ok |-> TRUE, val |-> v]
Err == [ok |-> FALSE, val |-> 0]

\* history: a lookup's result with how it was obtained ("cache", "select" or
\* "insert") and, for a SELECT, the ids of the rows it matched
Tag(r, how, matched) ==
    [ok |-> r.ok, val |-> r.val, via |-> how, matched |-> matched]

\* the tables the prelude (schema.sql) creates
SchemaTables == {"metric", "label", "label_value", "series", "label_set"}

EmptyDb ==
    [metric |-> {}, label |-> {}, label_value |-> {}, series |-> {},
     label_set |-> {}, tables |-> {}, rows |-> {}]

\* INSERT ... RETURNING id on an INTEGER PRIMARY KEY: the next rowid
NextId(rows) == IF rows = {} THEN 1 ELSE Max({ r.id : r \in rows }) + 1

\* rows.next(): the first row of the result, the one of least id
FirstId(ids) == Min(ids)

\* a HashMap as a function; insert replaces
MapGet(map, key) == IF key \in DOMAIN map THEN Some(map[key]) ELSE None
MapInsert(map, key, val) == (key :> val) @@ map

TableWriter_new ==
    [instance |-> None, job |-> None, metric_cache |-> <<>>,
     label_cache |-> <<>>, label_value_cache |-> <<>>, series_cache |-> <<>>]

ScalarTypes == {"counter", "gauge", "untyped"}

\* str::parse::<f64> on the sample values in use: the number a value denotes
\* (decimal, with a fraction of zero, signed or with an exponent), None
\* when the text is no number
ParseF64(v) ==
    CASE v \in {"0", "0.0", "-0"} -> Some(0)
      [] v \in {"1", "1.0", "+1", "1e0"} -> Some(1)
      [] v \in {"2", "2.0"} -> Some(2)
      [] v \in {"3", "3.0"} -> Some(3)
      [] v \in {"4", "4.0"} -> Some(4)
      [] v \in {"-1", "-1.0"} -> Some(-1)
      [] v \in {"1e3", "1000", "1000.0"} -> Some(1000)
      [] OTHER -> None

create_scalar(st, table_name) ==
    IF table_name \in st.db.tables \cup SchemaTables
    THEN [st |-> st, r |-> Err]
    ELSE [st |-> [st EXCEPT !.db.tables = @ \cup {table_name}], r |-> Ok(0)]

\* variant: INSERT OR REPLACE, the row of the same series and timestamp is
\* replaced
insert_scalar_Replace(st, table_name, timestamp_millis, series_id, value) ==
    IF table_name \notin st.db.tables
    THEN [st |-> st, r |-> Err]
    ELSE [st |-> [st EXCEPT !.db.rows =
                     { row \in @ : ~(/\ row.table = table_name
                                     /\ row.series_id = series_id
                                     /\ row.timestamp = timestamp_millis) }
                     \cup
                     {[table |-> table_name, series_id |-> series_id,
                       timestamp |-> timestamp_millis, value |-> value]}],
          r |-> Ok(0)]

insert_scalar(st, table_name, timestamp_millis, series_id, value) ==
    IF \/ table_name \notin st.db.tables
       \/ \E row \in st.db.rows :
             /\ row.table = table_name
             /\ row.series_id = series_id
             /\ row.timestamp = timestamp_millis
    THEN [st |-> st, r |-> Err]
    ELSE [st |-> [st EXCEPT !.db.rows = @ \cup
                     {[table |-> table_name, series_id |-> series_id,
                       timestamp |-> timestamp_millis, value |-> value]}],
          r |-> Ok(0)]

\* the `?` after create_scalar: its error is get_metric_id's, else Ok(id)
created_metric(c, id) ==
    [st |-> c.st, r |-> IF c.r.ok THEN Tag(Ok(id), "insert", {}) ELSE Err]

\* variant: a value table is created whatever the type
create_metric_table_Always(st, family, id) ==
    created_metric(create_scalar(st, Unwrap(family.var)), id)

\* get_metric_id once the row is in: the value table of a scalar metric
create_metric_table(st, family, id) ==
    IF family.type \in ScalarTypes
    THEN created_metric(create_scalar(st, Unwrap(family.var)), id)
    ELSE [st |-> st, r |-> Tag(Ok(id), "insert", {})]

\* get_metric_id, from the INSERT on: the row, then the value table
insert_metric(st, family) ==
    create_metric_table(
        [st EXCEPT !.db.metric = @ \cup
            {[id |-> NextId(st.db.metric), name |-> Unwrap(family.var),
              type |-> family.type, help |-> family.help]}],
        family, NextId(st.db.metric))

\* SELECT id FROM metric WHERE name = ?1
select_metric(st, name) ==
    { row.id : row \in { r \in st.db.metric : r.name = name } }

\* variant: the INSERT without the SELECT before it
get_metric_id_NoSelect(st, family) == insert_metric(st, family)

\* variant: a metric found under its name takes the family's type and help
get_metric_id_Update(st, family) ==
    IF select_metric(st, Unwrap(family.var)) # {}
    THEN [st |-> [st EXCEPT !.db.metric =
                     { IF row.name = Unwrap(family.var)
                       THEN [row EXCEPT !.type = family.type,
                                        !.help = family.help]
                       ELSE row : row \in @ }],
          r |-> Tag(Ok(FirstId(select_metric(st, Unwrap(family.var)))),
                    "select", select_metric(st, Unwrap(family.var)))]
    ELSE insert_metric(st, family)

get_metric_id(st, family) ==
    IF select_metric(st, Unwrap(family.var)) # {}
    THEN [st |-> st,
          r |-> Tag(Ok(FirstId(select_metric(st, Unwrap(family.var)))),
                    "select", select_metric(st, Unwrap(family.var)))]
    ELSE insert_metric(st, family)

\* get_metric_id_cached after the lookup g: `?`, then the cache insert
cache_metric(g, name) ==
    IF ~g.r.ok THEN g
    ELSE [st |-> [g.st EXCEPT !.tw.metric_cache = MapInsert(@, name, g.r.val)],
          r |-> g.r]

get_metric_id_cached(st, family) ==
    IF Unwrap(family.var) \in DOMAIN st.tw.metric_cache
    THEN [st |-> st,
          r |-> Tag(Ok(st.tw.metric_cache[Unwrap(family.var)]), "cache", {})]
    ELSE cache_metric(get_metric_id(st, family), Unwrap(family.var))

\* SELECT id FROM label WHERE name = ?1
select_label(st, label) ==
    { row.id : row \in { r \in st.db.label : r.name = label } }

\* variant: the INSERT of a label without the SELECT before it
get_label_id_NoSelect(st, label) ==
    [st |-> [st EXCEPT !.db.label = @ \cup
                {[id |-> NextId(st.db.label), name |-> label]}],
     r |-> Ok(NextId(st.db.label))]

get_label_id(st, label) ==
    IF select_label(st, label) # {}
    THEN [st |-> st, r |-> Ok(FirstId(select_label(st, label)))]
    ELSE [st |-> [st EXCEPT !.db.label = @ \cup
                     {[id |-> NextId(st.db.label), name |-> label]}],
          r |-> Ok(NextId(st.db.label))]

cache_label(g, label) ==
    [st |-> [g.st EXCEPT !.tw.label_cache = MapInsert(@, label, g.r.val)],
     r |-> g.r]

get_label_id_cached(st, label) ==
    IF label \in DOMAIN st.tw.label_cache
    THEN [st |-> st, r |-> Ok(st.tw.label_cache[label])]
    ELSE cache_label(get_label_id(st, label), label)

\* SELECT id FROM label_value WHERE label_id = ?1 AND value = ?2
select_label_value(st, label_id, value) ==
    { row.id : row \in { r \in st.db.label_value :
                           r.label_id = label_id /\ r.value = value } }

get_label_value(st, label_id, value) ==
    IF select_label_value(st, label_id, value) # {}
    THEN [st |-> st,
          r |-> Ok(FirstId(select_label_value(st, label_id, value)))]
    ELSE [st |-> [st EXCEPT !.db.label_value = @ \cup
                     {[id |-> NextId(st.db.label_value),
                       label_id |-> label_id, value |-> value]}],
          r |-> Ok(NextId(st.db.label_value))]

cache_label_value(g, key) ==
    [st |-> [g.st EXCEPT !.tw.label_value_cache = MapInsert(@, key, g.r.val)],
     r |-> g.r]

\* get_label_value_cached once the label id l is known
label_value_of(l, value) ==
    IF <<l.r.val, value>> \in DOMAIN l.st.tw.label_value_cache
    THEN [st |-> l.st,
          r |-> Ok(l.st.tw.label_value_cache[<<l.r.val, value>>])]
    ELSE cache_label_value(get_label_value(l.st, l.r.val, value),
                           <<l.r.val, value>>)

get_label_value_cached(st, label, value) ==
    label_value_of(get_label_id_cached(st, label), value)

\* get_series_id, from the INSERT on: the series row and its label_set rows
insert_series(st, metric_id, label_value_ids) ==
    [st |-> [st EXCEPT
               !.db.series = @ \cup
                   {[id |-> NextId(st.db.series), metric_id |-> metric_id]},
               !.db.label_set = @ \cup
                   { [series_id |-> NextId(st.db.series),
                      label_value_id |-> label_value_ids[i]] :
                     i \in 1..Len(label_value_ids) }],
     r |-> Tag(Ok(NextId(st.db.series)), "insert", {})]

\* the INTERSECT query: the series of the metric that hold every given
\* label value (and possibly more)
select_series(st, metric_id, label_value_ids) ==
    { row.id : row \in
        { s \in st.db.series :
            /\ s.metric_id = metric_id
            /\ \A i \in 1..Len(label_value_ids) :
                  [series_id |-> s.id, label_value_id |-> label_value_ids[i]]
                      \in st.db.label_set } }

\* variant: the INSERT of a series without the query before it
get_series_id_NoSelect(st, metric_id, label_value_ids) ==
    insert_series(st, metric_id, label_value_ids)

\* variant: of the rows the query matches, the one with the greatest id
get_series_id_Last(st, metric_id, label_value_ids) ==
    IF select_series(st, metric_id, label_value_ids) # {}
    THEN [st |-> st,
          r |-> Tag(Ok(Max(select_series(st, metric_id, label_value_ids))),
                    "select", select_series(st, metric_id, label_value_ids))]
    ELSE insert_series(st, metric_id, label_value_ids)

get_series_id(st, metric_id, label_value_ids) ==
    IF select_series(st, metric_id, label_value_ids) # {}
    THEN [st |-> st,
          r |-> Tag(Ok(FirstId(select_series(st, metric_id, label_value_ids))),
                    "select", select_series(st, metric_id, label_value_ids))]
    ELSE insert_series(st, metric_id, label_value_ids)

OptId(opt) == IF IsSome(opt) THEN <<Unwrap(opt)>> ELSE <<>>

\* the loop of get_series_id_cached over the sample's labels: ids is the
\* list so far, g the lookup of label i
RECURSIVE label_value_ids_from(_, _, _, _)
RECURSIVE label_value_ids_push(_, _, _, _)
label_value_ids_push(g, label_set, i, ids) ==
    label_value_ids_from(g.st, label_set, i + 1, Append(ids, g.r.val))

label_value_ids_from(st, label_set, i, ids) ==
    IF i > Len(label_set) THEN [st |-> st, r |-> Ok(ids)]
    ELSE label_value_ids_push(
             get_label_value_cached(st, label_set[i][1], label_set[i][2]),
             label_set, i, ids)

cache_series(g, key) ==
    [st |-> [g.st EXCEPT !.tw.series_cache = MapInsert(@, key, g.r.val)],
     r |-> g.r]

\* variant: the series cache is keyed by the label value ids alone
series_of_AnyMetric(l, metric_id) ==
    IF \E k \in DOMAIN l.st.tw.series_cache : k[2] = l.r.val
    THEN [st |-> l.st,
          r |-> Tag(Ok(l.st.tw.series_cache[
                        CHOOSE k \in DOMAIN l.st.tw.series_cache :
                            k[2] = l.r.val]),
                    "cache", {})]
    ELSE cache_series(get_series_id(l.st, metric_id, l.r.val),
                      <<metric_id, l.r.val>>)

\* get_series_id_cached once the label value ids l are known
series_of(l, metric_id) ==
    IF <<metric_id, l.r.val>> \in DOMAIN l.st.tw.series_cache
    THEN [st |-> l.st,
          r |-> Tag(Ok(l.st.tw.series_cache[<<metric_id, l.r.val>>]),
                    "cache", {})]
    ELSE cache_series(get_series_id(l.st, metric_id, l.r.val),
                      <<metric_id, l.r.val>>)

get_series_id_cached(st, metric_id, label_set) ==
    series_of(label_value_ids_from(st, label_set, 1,
                  OptId(st.tw.instance) \o OptId(st.tw.job)),
              metric_id)

\* history: sample i of the family resolved to series s.r.val, and how the
\* metric id and the series id were obtained
record_series(s, family, i) ==
    [s.st EXCEPT !.res = @ \cup
        {[metric |-> Unwrap(family.var), labels |-> family.samples[i].labels,
          series_id |-> s.r.val, via |-> s.r.via, matched |-> s.r.matched,
          metric_via |-> s.st.mvia]}]

\* the loop of process_metric_family over the family's samples:
\* process_samples is the loop from sample i on, process_sample the body
\* once the series lookup s is made, process_inserted what follows the
\* insert ins, process_value the match on the family's type
RECURSIVE process_samples(_, _, _, _, _)
RECURSIVE process_sample(_, _, _, _, _)
RECURSIVE process_value(_, _, _, _, _, _)
RECURSIVE process_inserted(_, _, _, _, _)
process_inserted(ins, timestamp_millis, family, metric_id, i) ==
    IF ~ins.r.ok THEN [st |-> ins.st, r |-> FALSE]
    ELSE process_samples(ins.st, timestamp_millis, family, metric_id, i + 1)

\* variant: a sample whose value is no number is skipped
process_value_Skip(st, series_id, timestamp_millis, family, metric_id, i) ==
    IF family.type \in ScalarTypes /\ ParseF64(family.samples[i].value) # None
    THEN process_inserted(
             insert_scalar(st, Unwrap(family.var), timestamp_millis,
                 series_id, Unwrap(ParseF64(family.samples[i].value))),
             timestamp_millis, family, metric_id, i)
    ELSE process_samples(st, timestamp_millis, family, metric_id, i + 1)

process_value(st, series_id, timestamp_millis, family, metric_id, i) ==
    IF family.type \in ScalarTypes
    THEN IF ParseF64(family.samples[i].value) = None
         THEN [st |-> st, r |-> FALSE]
         ELSE process_inserted(
                  insert_scalar(st, Unwrap(family.var), timestamp_millis,
                      series_id, Unwrap(ParseF64(family.samples[i].value))),
                  timestamp_millis, family, metric_id, i)
    ELSE process_samples(st, timestamp_millis, family, metric_id, i + 1)

process_sample(s, timestamp_millis, family, metric_id, i) ==
    IF ~s.r.ok THEN [st |-> s.st, r |-> FALSE]
    ELSE process_value(record_series(s, family, i), s.r.val,
                       timestamp_millis, family, metric_id, i)

process_samples(st, timestamp_millis, family, metric_id, i) ==
    IF i > Len(family.samples) THEN [st |-> st, r |-> TRUE]
    ELSE process_sample(
             get_series_id_cached(st, metric_id, family.samples[i].labels),
             timestamp_millis, family, metric_id, i)

\* process_metric_family once the metric lookup m is made
process_family_of(m, timestamp_millis, family) ==
    IF ~m.r.ok THEN [st |-> m.st, r |-> FALSE]
    ELSE process_samples([m.st EXCEPT !.mvia = m.r.via], timestamp_millis,
                         family, m.r.val, 1)

process_metric_family(st, timestamp_millis, family) ==
    process_family_of(get_metric_id_cached(st, family), timestamp_millis,
                      family)

set_label_value(g, field) ==
    IF field = "instance" THEN [g.st EXCEPT !.tw.instance = Some(g.r.val)]
    ELSE [g.st EXCEPT !.tw.job = Some(g.r.val)]

set_instance(st, inst) ==
    set_label_value(get_label_value_cached(st, "instance", inst), "instance")

set_job(st, jb) ==
    set_label_value(get_label_value_cached(st, "job", jb), "job")

(***************************************************************************)
(* driver/src/lib.rs                                                       *)
(***************************************************************************)
TaskStates == {"unspawned", "fetching", "sent", "dropped", "failed"}

\* std::process::ExitCode
ExitCode_SUCCESS == 0
ExitCode_FAILURE == 1

\* the targets tried: stdin, a URL, a URI without authority, and a string
\* that is no URI
Targets == {"-", "http://host-a/metrics", "/metrics", "http://host a/"}

\* str::parse::<Uri>: the authority of the URI, None when it does not parse
parse_uri(t) ==
    CASE t = "http://host-a/metrics" -> Some([authority |-> Some("host-a")])
      [] t = "http://host-a:9100/metrics" ->
             Some([authority |-> Some("host-a:9100")])
      [] t = "/metrics" -> Some([authority |-> None])
      [] OTHER -> None

(***************************************************************************)
(* prom2sqlite/src/main.rs: run() opens the TableWriter and sets its       *)
(* instance and job labels. config is Args: source, instance, job.         *)
(***************************************************************************)
\* the uri of run(): None for stdin, else the parsed source
source_uri(config) ==
    IF config.source = "-" THEN None ELSE parse_uri(config.source)

\* the label set_instance is called with: --instance, else the authority of
\* the source URI if it has one; None when set_instance is not called
instance_label(config, uri) ==
    IF IsSome(config.instance) THEN config.instance
    ELSE IF IsSome(uri) THEN Unwrap(uri).authority
    ELSE None

\* run(): set_instance when there is an instance label
open_instance(st, label) ==
    IF IsSome(label) THEN set_instance(st, Unwrap(label)) ELSE st

\* run(): set_job when --job is given
open_job(st, config) ==
    IF IsSome(config.job) THEN set_job(st, Unwrap(config.job)) ELSE st

\* TableWriter::open on the database, then run()'s set_instance and set_job
Open(st, config) ==
    open_job(open_instance([st EXCEPT !.tw = TableWriter_new],
                           instance_label(config, source_uri(config))),
             config)

\* the Args tried: each source with its --instance, with each of the jobs
SqlConfigs(sources, jobs) ==
    { [source |-> c[1], instance |-> c[2], job |-> j] :
        c \in sources, j \in jobs }

\* stdin, and a URL whose authority becomes the instance label
SourcesUnlabelled ==
    { <<"-", None>>, <<"http://host-a:9100/metrics", None>> }

\* a URL with --instance given
SourcesLabelled == { <<"http://host-a:9100/metrics", Some("host-a")>> }

\* Read::read_to_string: an error when the input is not UTF-8
read_to_string(in) ==
    IF \E i \in DOMAIN in : in[i].kind = "not utf-8" THEN None ELSE Some(in)

\* mutant: a send that takes the entry whatever the queue holds
try_send_Unbounded(q, cap, entry) ==
    [ok |-> TRUE, queue |-> Append(q, entry)]

\* Sender::try_send on a channel of depth cap: Full leaves the queue alone
try_send(q, cap, entry) ==
    IF Len(q) < cap
    THEN [ok |-> TRUE, queue |-> Append(q, entry)]
    ELSE [ok |-> FALSE, queue |-> q]

\* the Senders alive: the one run_async handed to polling_loop or
\* read_from_stdin, and the clone every collect task in flight holds
SenderCount ==
    (IF main \in {"binding", "stdin", "polling"} THEN 1 ELSE 0)
    + Cardinality({t \in DOMAIN tasks : tasks[t] = "fetching"})

\* variant: the families are exported last to first
RECURSIVE ExportAll_Reversed(_, _, _)
ExportAll_Reversed(ts, fams, i) ==
    IF i > Len(fams) THEN <<>>
    ELSE ExportAll_Reversed(ts, fams, i + 1)
         \o << [op |-> "export", ts |-> ts, family |-> fams[i]] >>

\* writer_loop: the loop over the families parse returned, from family i on
RECURSIVE ExportAll(_, _, _)
ExportAll(ts, fams, i) ==
    IF i > Len(fams) THEN <<>>
    ELSE << [op |-> "export", ts |-> ts, family |-> fams[i]] >>
         \o ExportAll(ts, fams, i + 1)

\* variant: a scrape that does not parse is exported as an empty family
writer_exports_OnFailure(ts, families) ==
    IF IsSome(families) THEN ExportAll(ts, Unwrap(families), 1)
    ELSE << [op |-> "export", ts |-> ts, family |-> MetricFamily_default] >>

\* writer_loop on one entry: the export calls made when parse returned
\* `families`, none when it returned None
writer_exports(ts, families) ==
    IF IsSome(families) THEN ExportAll(ts, Unwrap(families), 1) ELSE <<>>

\* variant: the entry sent last is received first
recv_Last(q) ==
    [entry |-> q[Len(q)], queue |-> SubSeq(q, 1, Len(q) - 1)]

\* Receiver::recv on a channel that holds entries: the one sent first
recv(q) == [entry |-> Head(q), queue |-> Tail(q)]

\* no fetch under study
FetchIdle ==
    /\ response = None
    /\ fetched = None

\* no interval under study
TickIdle ==
    /\ clock = 0
    /\ period = 1
    /\ deadline = 0
    /\ stalled = FALSE
    /\ fired = <<>>

\* no status request under study
HttpIdle ==
    /\ request = None
    /\ answer = None

\* no second writer under study
CacheIdle == fresh = None

\* no comparison of the parsers under study
ParseIdle == parsers = None

\* no Parquet exporter under study
PqIdle ==
    /\ builder = <<>>
    /\ file = <<>>
    /\ pqopen = FALSE
    /\ pqlog = <<>>

\* the normalizer before prom2sqlite has opened its database
SqlIdle ==
    /\ cfg = [source |-> "-", instance |-> None, job |-> None]
    /\ db = EmptyDb
    /\ tw = TableWriter_new
    /\ now = 1
    /\ nexports = 0
    /\ resolved = {}
    /\ exported = {}
    /\ last = None

PipeInit(tgt) ==
    /\ target = tgt
    /\ main = IF tgt = "-" THEN "stdin" ELSE "polling"
    /\ tasks = [t \in 1..MaxTicks |-> "unspawned"]
    /\ queue = <<>>
    /\ writer = "running"
    /\ calls = <<>>
    /\ processed = <<>>
    /\ enqueued = <<>>
    /\ bind = "ok"
    /\ exit_code = None
    /\ status = None
    /\ served = 0
    /\ events = {}

\* polling mode: the instance label defaults to the URL's authority
Init ==
    /\ PipeInit("http://host-a/metrics")
    /\ instance \in {Some("host-a"), Some("other")}
    /\ job \in {None, Some("web")}
    /\ buffer \in 1..MaxBuffer
    /\ input = <<>>
    /\ SqlIdle
    /\ FetchIdle
    /\ TickIdle
    /\ HttpIdle
    /\ PqIdle
    /\ CacheIdle
    /\ ParseIdle

InitStdin ==
    /\ PipeInit("-")
    /\ instance \in {None, Some("host-a")}
    /\ job \in {None, Some("web")}
    /\ buffer \in 1..MaxBuffer
    /\ input \in Bodies
    /\ SqlIdle
    /\ FetchIdle
    /\ TickIdle
    /\ HttpIdle
    /\ PqIdle
    /\ CacheIdle
    /\ ParseIdle

\* polling_loop: the interval ticks and a collect task is spawned
Tick(t) ==
    /\ main = "polling"
    /\ tasks[t] = "unspawned"
    /\ \A u \in 1..(t - 1) : tasks[u] # "unspawned"
    /\ tasks' = [tasks EXCEPT ![t] = "fetching"]
    /\ UNCHANGED <<target, enqueued, instance, job, buffer, input,
                   main, queue, writer,
                   calls, processed,
                   runvars, sqlvars, fetchvars, tickvars,
                   httpvars, cachevars, parsevars, pqvars>>

\* collect: the fetch succeeded, the scrape is offered to the channel; the
\* send fails when the queue is full and when the Receiver is gone
CollectOk(t, body) ==
    /\ tasks[t] = "fetching"
    /\ LET r == IF writer = "panicked"
                THEN [ok |-> FALSE, queue |-> queue]
                ELSE try_send(queue, buffer, [ts |-> t, body |-> body])
       IN  /\ queue' = r.queue
           /\ tasks' = [tasks EXCEPT ![t] = IF r.ok THEN "sent" ELSE "dropped"]
           /\ enqueued' = IF r.ok THEN Append(enqueued, t) ELSE enqueued
    /\ UNCHANGED <<target, instance, job, buffer, input, main, writer, calls,
                   processed,
                   runvars, sqlvars, fetchvars, tickvars,
                   httpvars, cachevars, parsevars, pqvars>>

\* variant: a failed fetch ends the polling loop
CollectErr_Stops(t) ==
    /\ tasks[t] = "fetching"
    /\ tasks' = [tasks EXCEPT ![t] = "failed"]
    /\ main' = "joining"
    /\ UNCHANGED <<target, enqueued, instance, job, buffer, input,
                   queue, writer,
                   calls, processed,
                   runvars, sqlvars, fetchvars, tickvars,
                   httpvars, cachevars, parsevars, pqvars>>

\* collect: the fetch failed (it returned an Err, or it panicked and the
\* runtime ended the task); the task's Sender is dropped
CollectErr(t) ==
    /\ tasks[t] = "fetching"
    /\ tasks' = [tasks EXCEPT ![t] = "failed"]
    /\ UNCHANGED <<target, enqueued, instance, job, buffer, input,
                   main, queue, writer,
                   calls, processed,
                   runvars, sqlvars, fetchvars, tickvars,
                   httpvars, cachevars, parsevars, pqvars>>

\* polling_loop: ctrl_c, the loop breaks and polling_loop returns; run_async
\* takes ExitCode::SUCCESS
Interrupt ==
    /\ main = "polling"
    /\ main' = "joining"
    /\ exit_code' = Some(ExitCode_SUCCESS)
    /\ UNCHANGED <<target, enqueued, instance, job, buffer, input,
                   tasks, queue, writer,
                   calls, processed,
                   bind, status, served, events,
                   sqlvars, fetchvars, tickvars,
                   httpvars, cachevars, parsevars, pqvars>>

\* variant: a read error is logged and the run still reports success
stdin_sent_Success(text) ==
    IF text = None
    THEN /\ queue' = queue
         /\ enqueued' = enqueued
         /\ exit_code' = Some(ExitCode_SUCCESS)
    ELSE /\ queue' = try_send(queue, buffer,
                              [ts |-> 1, body |-> Unwrap(text)]).queue
         /\ enqueued' = IF try_send(queue, buffer,
                                    [ts |-> 1, body |-> Unwrap(text)]).ok
                        THEN Append(enqueued, 1) ELSE enqueued
         /\ exit_code' = Some(ExitCode_SUCCESS)

\* read_from_stdin once read_to_string has returned `text`: the entry is
\* stamped with the wall clock (1) and sent
stdin_sent(text) ==
    IF text = None
    THEN /\ queue' = queue
         /\ enqueued' = enqueued
         /\ exit_code' = Some(ExitCode_FAILURE)
    ELSE /\ queue' = try_send(queue, buffer,
                              [ts |-> 1, body |-> Unwrap(text)]).queue
         /\ enqueued' = IF try_send(queue, buffer,
                                    [ts |-> 1, body |-> Unwrap(text)]).ok
                        THEN Append(enqueued, 1) ELSE enqueued
         /\ exit_code' = IF try_send(queue, buffer,
                                     [ts |-> 1, body |-> Unwrap(text)]).ok
                         THEN Some(ExitCode_SUCCESS)
                         ELSE Some(ExitCode_FAILURE)

\* read_from_stdin
ReadFromStdin ==
    /\ main = "stdin"
    /\ stdin_sent(read_to_string(input))
    /\ main' = "joining"
    /\ UNCHANGED <<target, instance, job, buffer, input, tasks, writer, calls,
                   processed,
                   bind, status, served, events,
                   sqlvars, fetchvars, tickvars,
                   httpvars, cachevars, parsevars, pqvars>>

\* what Exporter::export does when called: it returns true or false, or
\* it panics
ExportAnswers == {"true", "false", "panic"}

\* what the exporter does on the n export calls of one entry: an answer per
\* call made; a panic is the last answer, and no call is made after it
AnswerSeqs(n) ==
    { a \in UNION { [1..k -> ExportAnswers] : k \in 0..n } :
        /\ \A i \in 1..(Len(a) - 1) : a[i] # "panic"
        /\ Len(a) < n => (a # <<>> /\ a[Len(a)] = "panic") }

Panics(answers) == answers # <<>> /\ answers[Len(answers)] = "panic"

\* the errors logged while writer_loop handles an entry: those of its call
\* of parse, and one for every export call that returns false
writer_errors(inst, jb, body, answers) ==
    parse_logged(inst, jb, body)
    \cup (IF \E i \in DOMAIN answers : answers[i] = "false"
          THEN {"export failure"} ELSE {})

\* writer_loop on the entry recv() yields, whose families make the export
\* calls `exports` and get the answers `answers`: the calls are made up to
\* the one that panics. A panic ends the writer task: its Receiver, and
\* what the queue holds, are dropped
WriterHandled(entry, exports, answers) ==
    /\ answers \in AnswerSeqs(Len(exports))
    /\ calls' = calls \o SubSeq(exports, 1, Len(answers))
    /\ processed' = Append(processed, entry.ts)
    /\ events' = events
                   \cup writer_errors(instance, job, entry.body, answers)
    /\ queue' = IF Panics(answers) THEN <<>> ELSE recv(queue).queue
    /\ writer' = IF Panics(answers) THEN "panicked" ELSE "running"

WriterParsed(entry, families, answers) ==
    WriterHandled(entry, writer_exports(entry.ts, families), answers)

WriterStep(answers) ==
    /\ writer = "running"
    /\ queue # <<>>
    /\ WriterParsed(recv(queue).entry,
                    parse(instance, job, recv(queue).entry.body), answers)
    /\ UNCHANGED <<target, enqueued, instance, job, buffer, input,
                   main, tasks,
                   bind, exit_code, status, served,
                   sqlvars, fetchvars, tickvars,
                   httpvars, cachevars, parsevars, pqvars>>

\* the export calls the entry at the head of the queue leads to
NextExports ==
    IF queue = <<>> THEN <<>>
    ELSE writer_exports(recv(queue).entry.ts,
                        parse(instance, job, recv(queue).entry.body))

\* writer_loop on an entry whose exports all return true
WriterRecv == WriterStep([i \in 1..Len(NextExports) |-> "true"])

\* writer_loop: recv() yields None (channel empty, every Sender dropped)
WriterExit ==
    /\ writer = "running"
    /\ queue = <<>>
    /\ SenderCount = 0
    /\ writer' = "exited"
    /\ UNCHANGED <<target, enqueued, instance, job, buffer, input,
                   main, tasks, queue,
                   calls, processed,
                   runvars, sqlvars, fetchvars, tickvars,
                   httpvars, cachevars, parsevars, pqvars>>

\* variant: the result of joining the writer is ignored
run_status_IgnoresJoin(w, code) == code

\* run_async and run: a JoinError of the writer task becomes an Err, which
\* run turns into ExitCode::FAILURE; otherwise the exit code is returned
run_status(w, code) ==
    IF w = "panicked" THEN Some(ExitCode_FAILURE) ELSE code

\* run_async: writer_task.await completes, run returns
RunReturn ==
    /\ main = "joining"
    /\ writer \in {"exited", "panicked"}
    /\ main' = "returned"
    /\ status' = run_status(writer, exit_code)
    /\ UNCHANGED <<target, enqueued, instance, job, buffer, input,
                   tasks, queue, writer,
                   calls, processed,
                   bind, exit_code, served, events,
                   sqlvars, fetchvars, tickvars,
                   httpvars, cachevars, parsevars, pqvars>>

Next ==
    \/ \E t \in 1..MaxTicks : Tick(t)
    \/ \E t \in 1..MaxTicks, body \in PollBodies : CollectOk(t, body)
    \/ \E t \in 1..MaxTicks : CollectErr(t)
    \/ Interrupt
    \/ WriterRecv
    \/ WriterExit
    \/ RunReturn

Spec == Init /\ [][Next]_vars

\* the runtime schedules the tasks that are ready; nothing makes a fetch end
FairSpec ==
    /\ Spec
    /\ WF_vars(WriterRecv)
    /\ WF_vars(WriterExit)
    /\ WF_vars(RunReturn)

NextStdin ==
    \/ ReadFromStdin
    \/ WriterRecv
    \/ WriterExit
    \/ RunReturn

SpecStdin == InitStdin /\ [][NextStdin]_vars

(***************************************************************************)
(* driver/src/lib.rs, run and run_async from their first line: the target  *)
(* may be no URI, the status address may be taken, stdin may be            *)
(* unreadable, exports may fail or panic, status connections arrive.       *)
(***************************************************************************)
NotUtf8Line == Line("not utf-8", "", FALSE, <<>>, "")

\* what stdin may hold
RunInputs ==
    PollBodies
    \cup { <<>>, << NotUtf8Line >>,
           << SampleLine("x", <<>>, "1"), SampleLine("y", <<>>, "2") >> }

\* before run_async's first line; `instance` holds Args::instance()
InitRun ==
    /\ target \in Targets
    /\ instance \in {None, Some("other")}
    /\ job = None
    /\ buffer \in 1..MaxBuffer
    /\ input \in IF target = "-" THEN RunInputs ELSE { <<>> }
    /\ bind \in IF target # "-" /\ IsSome(parse_uri(target))
                THEN {"ok", "error"} ELSE {"ok"}
    /\ main = "starting"
    /\ tasks = [t \in 1..MaxTicks |-> "unspawned"]
    /\ queue = <<>>
    /\ writer = "unspawned"
    /\ calls = <<>>
    /\ processed = <<>>
    /\ enqueued = <<>>
    /\ exit_code = None
    /\ status = None
    /\ served = 0
    /\ events = {}
    /\ SqlIdle
    /\ FetchIdle
    /\ TickIdle
    /\ HttpIdle
    /\ PqIdle
    /\ CacheIdle
    /\ ParseIdle

\* run_async: the instance label is Args::instance(), else the authority
\* of the URI if it has one
default_instance(inst, uri) ==
    IF IsSome(inst) THEN inst
    ELSE IF IsSome(uri) THEN Unwrap(uri).authority
    ELSE None

\* run_async up to the call of read_from_stdin or polling_loop: a target
\* that is no URI ends the run before the writer is spawned
RunStart ==
    /\ main = "starting"
    /\ IF target # "-" /\ parse_uri(target) = None
       THEN /\ main' = "returned"
            /\ status' = Some(ExitCode_FAILURE)
            /\ UNCHANGED <<instance, writer>>
       ELSE /\ main' = IF target = "-" THEN "stdin" ELSE "binding"
            /\ instance' = default_instance(instance,
                               IF target = "-" THEN None
                               ELSE parse_uri(target))
            /\ writer' = "running"
            /\ status' = status
    /\ UNCHANGED <<target, enqueued, job, buffer, input,
                   tasks, queue,
                   calls, processed,
                   bind, exit_code, served, events,
                   sqlvars, fetchvars, tickvars,
                   httpvars, cachevars, parsevars, pqvars>>

\* polling_loop: TcpListener::bind; on an error polling_loop returns and
\* run_async takes ExitCode::SUCCESS
Bind ==
    /\ main = "binding"
    /\ IF bind = "ok"
       THEN main' = "polling" /\ exit_code' = exit_code
       ELSE main' = "joining" /\ exit_code' = Some(ExitCode_SUCCESS)
    /\ UNCHANGED <<target, enqueued, instance, job, buffer, input,
                   tasks, queue, writer,
                   calls, processed,
                   bind, status, served, events,
                   sqlvars, fetchvars, tickvars,
                   httpvars, cachevars, parsevars, pqvars>>

\* variant: a status connection ends the polling loop
Accept_Breaks ==
    /\ main = "polling"
    /\ served < MaxConns
    /\ served' = served + 1
    /\ main' = "joining"
    /\ exit_code' = Some(ExitCode_SUCCESS)
    /\ UNCHANGED <<target, enqueued, instance, job, buffer, input,
                   tasks, queue, writer,
                   calls, processed,
                   bind, status, events,
                   sqlvars, fetchvars, tickvars,
                   httpvars, cachevars, parsevars, pqvars>>

\* polling_loop: listener.accept() yields a connection, http::serve spawns
\* its service
Accept ==
    /\ main = "polling"
    /\ served < MaxConns
    /\ served' = served + 1
    /\ UNCHANGED <<target, enqueued, instance, job, buffer, input,
                   main, tasks, queue, writer,
                   calls, processed,
                   bind, exit_code, status, events,
                   sqlvars, fetchvars, tickvars,
                   httpvars, cachevars, parsevars, pqvars>>

NextRun ==
    \/ RunStart
    \/ Bind
    \/ \E t \in 1..MaxTicks : Tick(t)
    \/ \E t \in 1..MaxTicks, body \in PollBodies : CollectOk(t, body)
    \/ \E t \in 1..MaxTicks : CollectErr(t)
    \/ Accept
    \/ Interrupt
    \/ ReadFromStdin
    \/ \E answers \in AnswerSeqs(Len(NextExports)) : WriterStep(answers)
    \/ WriterExit
    \/ RunReturn

SpecRun == InitRun /\ [][NextRun]_vars


(***************************************************************************)
(* driver/src/fetch.rs: fetch on its own, on one response of the target.   *)
(***************************************************************************)
\* Date header values: three RFC 2822 dates (the zone as GMT, as +0000 and
\* as +0100), an RFC 850 date, an ISO 8601 date, and text that is no date
DateHeaders ==
    { None,
      Some("Thu, 01 Jan 1970 00:00:01 GMT"),
      Some("Thu, 01 Jan 1970 00:00:02 +0000"),
      Some("Thu, 01 Jan 1970 01:00:03 +0100"),
      Some("Thursday, 01-Jan-70 00:00:01 GMT"),
      Some("1970-01-01T00:00:01Z"),
      Some("now") }

\* DateTime::parse_from_rfc2822 followed by timestamp_millis
parse_from_rfc2822(date) ==
    CASE date = "Thu, 01 Jan 1970 00:00:01 GMT" -> Some(1000)
      [] date = "Thu, 01 Jan 1970 00:00:02 +0000" -> Some(2000)
      [] date = "Thu, 01 Jan 1970 01:00:03 +0100" -> Some(3000)
      [] OTHER -> None

\* what the target answers: the Date header, the body and how reading it
\* ends, and what the wall clock shows when the headers are in
Responses ==
    [date : DateHeaders,
     body : {"x 1\n", "# TYPE x gauge\nx 1\n"},
     read : {"ok", "error", "not utf-8"},
     wall : {5000, 6000}]

\* how a call of fetch ends
FetchOk(timestamp, output) ==
    [end |-> "Ok", timestamp |-> timestamp, output |-> output]
FetchErr == [end |-> "Err", timestamp |-> 0, output |-> ""]
FetchPanic == [end |-> "panic", timestamp |-> 0, output |-> ""]

\* fetch, the match on the Date header: None stands for the panic of the
\* unwrap on a header that does not parse
fetch_timestamp(res) ==
    IF IsSome(res.date)
    THEN parse_from_rfc2822(Unwrap(res.date))
    ELSE Some(res.wall)

\* fetch suspended in res.collect().await, the timestamp taken
FetchCollecting(timestamp) ==
    [end |-> "collecting", timestamp |-> timestamp, output |-> ""]

\* fetch from the response's headers to the await of its body: the
\* timestamp is taken, or the unwrap panics
fetch_headers(res) ==
    IF fetch_timestamp(res) = None THEN FetchPanic
    ELSE FetchCollecting(Unwrap(fetch_timestamp(res)))

\* fetch once the body is in, or cannot be had: collect's unwrap panics,
\* read_to_string fails, or fetch returns the timestamp and the text
fetch_body(res, timestamp) ==
    IF res.read = "error" THEN FetchPanic
    ELSE IF res.read = "not utf-8" THEN FetchErr
    ELSE FetchOk(timestamp, res.body)

InitFetch ==
    /\ PipeInit("http://host-a/metrics")
    /\ instance = Some("host-a")
    /\ job = None
    /\ buffer = 1
    /\ input = <<>>
    /\ SqlIdle
    /\ response \in Responses
    /\ fetched = None
    /\ TickIdle
    /\ HttpIdle
    /\ PqIdle
    /\ CacheIdle
    /\ ParseIdle

\* fetch: connect, handshake or send_request fails
FetchNoResponse ==
    /\ fetched = None
    /\ fetched' = Some(FetchErr)
    /\ UNCHANGED <<pipevars, sqlvars, tickvars,
                   httpvars, cachevars, parsevars, pqvars, response>>

\* fetch: send_request returns the response, its headers in; the timestamp
\* is taken and fetch awaits the body
FetchResponse ==
    /\ fetched = None
    /\ fetched' = Some(fetch_headers(response))
    /\ UNCHANGED <<pipevars, sqlvars, tickvars,
                   httpvars, cachevars, parsevars, pqvars, response>>

\* fetch: collect() completes, the body is read and fetch returns
FetchBody ==
    /\ IsSome(fetched)
    /\ Unwrap(fetched).end = "collecting"
    /\ fetched' = Some(fetch_body(response, Unwrap(fetched).timestamp))
    /\ UNCHANGED <<pipevars, sqlvars, tickvars,
                   httpvars, cachevars, parsevars, pqvars, response>>

NextFetch ==
    \/ FetchNoResponse
    \/ FetchResponse
    \/ FetchBody

SpecFetch == InitFetch /\ [][NextFetch]_vars

(***************************************************************************)
(* driver/src/lib.rs, polling_loop: the sample interval.  Time is counted  *)
(* in units coarser than the few milliseconds of lateness that the         *)
(* interval forgives, so a tick is either on time or late by a unit.       *)
(***************************************************************************)
\* variant: MissedTickBehavior::Burst, the next tick is due one period
\* after the instant the late one was due
next_timeout_Burst(timeout, t, p) == timeout + p

\* MissedTickBehavior::Delay: the next tick is due one period after the
\* instant the late one was taken
next_timeout(timeout, t, p) == t + p

\* Interval::tick completing at instant t: the tick, and the next deadline
interval_tick(timeout, t, p) ==
    [tick |-> t,
     next |-> IF t > timeout THEN next_timeout(timeout, t, p)
                             ELSE timeout + p]

\* tokio::time::interval: the first tick is due at once
InitTick ==
    /\ PipeInit("http://host-a/metrics")
    /\ instance = Some("host-a")
    /\ job = None
    /\ buffer = 1
    /\ input = <<>>
    /\ SqlIdle
    /\ FetchIdle
    /\ HttpIdle
    /\ PqIdle
    /\ CacheIdle
    /\ ParseIdle
    /\ clock = 0
    /\ period \in 1..MaxPeriod
    /\ deadline = 0
    /\ stalled = FALSE
    /\ fired = <<>>

\* time passes; a loop that is free to run takes a tick the instant it is due
TimePasses ==
    /\ clock < MaxClock
    /\ stalled \/ clock < deadline
    /\ clock' = clock + 1
    /\ UNCHANGED <<pipevars, sqlvars, fetchvars,
                   httpvars, cachevars, parsevars, pqvars,
                   period, deadline, stalled, fired>>

\* the one thread of the runtime is taken by another task (the writer in a
\* long export): the polling loop is not polled
LoopStalls ==
    /\ ~stalled
    /\ stalled' = TRUE
    /\ UNCHANGED <<pipevars, sqlvars, fetchvars,
                   httpvars, cachevars, parsevars, pqvars,
                   clock, period, deadline, fired>>

\* the other task yields
LoopResumes ==
    /\ stalled
    /\ stalled' = FALSE
    /\ UNCHANGED <<pipevars, sqlvars, fetchvars,
                   httpvars, cachevars, parsevars, pqvars,
                   clock, period, deadline, fired>>

\* polling_loop: sample_interval.tick() completes and a scrape is spawned
IntervalTick ==
    /\ ~stalled
    /\ clock >= deadline
    /\ fired' = Append(fired, interval_tick(deadline, clock, period).tick)
    /\ deadline' = interval_tick(deadline, clock, period).next
    /\ UNCHANGED <<pipevars, sqlvars, fetchvars,
                   httpvars, cachevars, parsevars, pqvars,
                   clock, period, stalled>>

NextTick ==
    \/ TimePasses
    \/ LoopStalls
    \/ LoopResumes
    \/ IntervalTick

SpecTick == InitTick /\ [][NextTick]_vars

(***************************************************************************)
(* driver/src/http.rs and prom2sqlite/src/main.rs: the status server.      *)
(***************************************************************************)
\* the request targets tried
Uris ==
    { "/", "/metrics", "/metrics?x=1", "/metrics/", "/-/healthy",
      "/-/ready", "/-/ready?", "/-/reload", "/-/quit", "/-/quit?now",
      "/-/Reload", "/-/", "/favicon.ico", "/css", "/js" }

Methods == {"GET", "HEAD", "POST", "PUT"}

\* the binaries with a status server: those built on the driver crate, and
\* prom2sqlite and src/main.rs with a service of their own
Servers == {"driver", "prom2sqlite", "main"}

\* Uri::path: the target up to the query
uri_path(uri) ==
    CASE uri = "/metrics?x=1" -> "/metrics"
      [] uri = "/-/ready?" -> "/-/ready"
      [] uri = "/-/quit?now" -> "/-/quit"
      [] OTHER -> uri

\* driver/src/http.rs, Svc::call: the status code of the response
Svc_call(req) ==
    CASE uri_path(req.uri) = "/" -> 200
      [] uri_path(req.uri) = "/metrics" -> 200
      [] uri_path(req.uri) = "/-/healthy" -> 200
      [] uri_path(req.uri) = "/-/ready" -> 200
      [] uri_path(req.uri) = "/-/reload" -> 501
      [] uri_path(req.uri) = "/-/quit" -> 501
      [] OTHER -> 404

\* prom2sqlite/src/main.rs, Svc::call: the status code of the response
prom2sqlite_Svc_call(req) ==
    CASE uri_path(req.uri) = "/" -> 200
      [] uri_path(req.uri) = "/metrics" -> 200
      [] uri_path(req.uri) = "/-/healthy" -> 200
      [] uri_path(req.uri) = "/-/ready" -> 200
      [] uri_path(req.uri) = "/-/quit" -> 501
      [] OTHER -> 404

\* src/main.rs, Svc::call: the status code of the response
main_Svc_call(req) ==
    CASE uri_path(req.uri) = "/" -> 200
      [] uri_path(req.uri) = "/css" -> 200
      [] uri_path(req.uri) = "/js" -> 200
      [] uri_path(req.uri) = "/-/healthy" -> 200
      [] uri_path(req.uri) = "/-/ready" -> 200
      [] uri_path(req.uri) = "/-/quit" -> 501
      [] OTHER -> 404

\* a request has arrived on a connection the polling loop accepted
InitHttp ==
    /\ PipeInit("http://host-a/metrics")
    /\ instance = Some("host-a")
    /\ job = None
    /\ buffer = 1
    /\ input = <<>>
    /\ SqlIdle
    /\ FetchIdle
    /\ TickIdle
    /\ PqIdle
    /\ CacheIdle
    /\ ParseIdle
    /\ request \in [server : Servers, method : Methods, uri : Uris]
    /\ answer = None

\* serve_connection calls the service on the request and sends its response
HttpServe ==
    /\ answer = None
    /\ answer' = CASE request.server = "driver" ->
                          Some(Svc_call(request))
                   [] request.server = "prom2sqlite" ->
                          Some(prom2sqlite_Svc_call(request))
                   [] request.server = "main" ->
                          Some(main_Svc_call(request))
    /\ UNCHANGED <<pipevars, sqlvars, fetchvars, tickvars, pqvars,
                   cachevars, parsevars,
                   request>>

NextHttp == HttpServe

SpecHttp == InitHttp /\ [][NextHttp]_vars

(***************************************************************************)
(* The Parquet exporter on its own (prom2parquet/src/export.rs): families  *)
(* are exported one after the other to one file, which is then closed.     *)
(***************************************************************************)
MaxPqExports == 3

PqSample(name, value) == [var |-> name, labels |-> <<>>, value |-> value]

PqFamily(name, values) ==
    [var |-> Some(name), help |-> None, type |-> "gauge",
     samples |-> [i \in DOMAIN values |-> PqSample(name, values[i])]]

\* gauge families with one sample or two, of which the first, the second or
\* none has no number for its value
PqFamilies ==
    { PqFamily("a", <<"1">>), PqFamily("b", <<"x">>),
      PqFamily("c", <<"1", "x">>), PqFamily("d", <<"x", "1">>),
      PqFamily("e", <<"1", "3">>) }

\* RecordBatchBuilder::append_scalar: the timestamp, the name and the labels
\* are appended, then the value, or null when it does not parse
append_scalar(b, timestamp, sample) ==
    [b |-> Append(b, [timestamp |-> timestamp, metric |-> sample.var,
                      labels |-> sample.labels,
                      scalar |-> ParseF64(sample.value)]),
     r |-> ParseF64(sample.value) # None]

\* the loop of export over the samples from the i-th on: it stops at the
\* first sample whose append returns false
RECURSIVE append_samples(_, _, _, _)
append_samples(b, timestamp, family, i) ==
    IF i > Len(family.samples) THEN [b |-> b, r |-> TRUE]
    ELSE IF ~append_scalar(b, timestamp, family.samples[i]).r
         THEN [b |-> append_scalar(b, timestamp, family.samples[i]).b,
               r |-> FALSE]
         ELSE append_samples(
                  append_scalar(b, timestamp, family.samples[i]).b,
                  timestamp, family, i + 1)

\* RecordBatchBuilder::finish: the rows held become the batch, none is kept
finish(b) == [batch |-> b, b |-> <<>>]

\* the rows an export call made of its family at its timestamp
PqRows(family, timestamp) ==
    [i \in DOMAIN family.samples |->
        [timestamp |-> timestamp, metric |-> family.samples[i].var,
         labels |-> family.samples[i].labels,
         scalar |-> ParseF64(family.samples[i].value)]]

InitParquet ==
    /\ PipeInit("-")
    /\ instance = None
    /\ job = None
    /\ buffer = 1
    /\ input = <<>>
    /\ SqlIdle
    /\ FetchIdle
    /\ TickIdle
    /\ HttpIdle
    /\ CacheIdle
    /\ ParseIdle
    /\ builder = <<>>
    /\ file = <<>>
    /\ pqopen = TRUE
    /\ pqlog = <<>>

\* ParquetExporter::export: the writer takes the batch (written) or fails
ParquetExported(out, family, timestamp, written) ==
    /\ builder' = IF out.r THEN finish(out.b).b ELSE out.b
    /\ file' = IF out.r /\ written THEN file \o finish(out.b).batch ELSE file
    /\ pqlog' = Append(pqlog, [family |-> family, timestamp |-> timestamp,
                               r |-> out.r /\ written])

ParquetExport(family, written) ==
    /\ pqopen
    /\ Len(pqlog) < MaxPqExports
    /\ ParquetExported(append_samples(builder, Len(pqlog) + 1, family, 1),
                       family, Len(pqlog) + 1, written)
    /\ UNCHANGED <<pipevars, sqlvars, fetchvars, tickvars,
                   httpvars, cachevars, parsevars, pqopen>>

\* ParquetExporter::close: the writer is closed, the rows the builder holds
\* are not written
ParquetClose ==
    /\ pqopen
    /\ pqopen' = FALSE
    /\ UNCHANGED <<pipevars, sqlvars, fetchvars, tickvars,
                   httpvars, cachevars, parsevars,
                   builder, file, pqlog>>

NextParquet ==
    \/ \E family \in PqFamilies, written \in BOOLEAN :
          ParquetExport(family, written)
    \/ ParquetClose

SpecParquet == InitParquet /\ [][NextParquet]_vars

(***************************************************************************)
(* The normalizer on its own: families are written one after the other to  *)
(* one database, by a process that may be restarted in between.            *)
(***************************************************************************)
SqlLabelLists ==
    { <<>>,
      << <<"a", "1">> >>,
      << <<"a", "1">>, <<"b", "1">> >>,
      << <<"b", "1">>, <<"a", "1">> >> }

SqlSample(name, labels) == [var |-> name, labels |-> labels, value |-> "1"]

SqlFamily(name, samples) ==
    [var |-> Some(name), help |-> None, type |-> "gauge", samples |-> samples]

\* gauge families: of m with one sample, of m with two samples (with the same
\* labels, with one's labels part of the other's, with the same labels in
\* another order), of n with one sample; and a histogram family h
SqlFamilies ==
    { SqlFamily("m", <<SqlSample("m", ls)>>) : ls \in SqlLabelLists }
    \cup
    { SqlFamily("m", <<SqlSample("m", p[1]), SqlSample("m", p[2])>>) :
        p \in { << << <<"a", "1">> >>, << <<"a", "1">> >> >>,
                << << <<"a", "1">>, <<"b", "1">> >>, << <<"a", "1">> >> >>,
                << <<>>, << <<"b", "1">>, <<"a", "1">> >> >> } }
    \cup
    { SqlFamily("n", <<SqlSample("n", ls)>>) :
        ls \in { <<>>, << <<"a", "1">> >> } }
    \cup
    { [SqlFamily("h", <<SqlSample("h_sum", <<>>)>>)
          EXCEPT !.type = "histogram"] }

\* what the TableWriter's methods work on: the database, the writer's
\* fields, and the history of resolutions
SqlState(d, t, r) == [db |-> d, tw |-> t, res |-> r, mvia |-> "none"]

InitSql ==
    /\ PipeInit("-")
    /\ instance = None
    /\ job = None
    /\ buffer = 1
    /\ input = <<>>
    /\ cfg \in SqlConfigs(SourcesUnlabelled, {None})
                \cup SqlConfigs({<<"http://host-a:9100/metrics", None>>},
                                {Some("web")})
    /\ db = Open(SqlState(EmptyDb, TableWriter_new, {}), cfg).db
    /\ tw = Open(SqlState(EmptyDb, TableWriter_new, {}), cfg).tw
    /\ now = 1
    /\ nexports = 0
    /\ resolved = {}
    /\ exported = {}
    /\ last = None
    /\ FetchIdle
    /\ TickIdle
    /\ HttpIdle
    /\ PqIdle
    /\ CacheIdle
    /\ ParseIdle

\* the state process_metric_family leaves, and the history of its results
SqlExported(out, family) ==
    /\ db' = out.st.db
    /\ tw' = out.st.tw
    /\ resolved' = out.st.res
    /\ exported' = IF out.r THEN exported \cup {Unwrap(family.var)}
                            ELSE exported

\* writer.write hands one family of the scrape to process_metric_family
SqlExport(family) ==
    /\ nexports < MaxExports
    /\ nexports' = nexports + 1
    /\ SqlExported(process_metric_family(
                       SqlState(db, tw, resolved), now, family),
                   family)
    /\ UNCHANGED <<pipevars, fetchvars, tickvars,
                   httpvars, cachevars, parsevars, pqvars, cfg, now, last>>

\* the next scrape arrives
SqlNextScrape ==
    /\ now < MaxTs
    /\ now' = now + 1
    /\ UNCHANGED <<pipevars, fetchvars, tickvars,
                   httpvars, cachevars, parsevars, pqvars,
                   cfg, db, tw, nexports, resolved, exported, last>>

SqlReopened(st) == db' = st.db /\ tw' = st.tw

\* the process is restarted on the same database: the caches start empty
SqlRestart ==
    /\ SqlReopened(Open(SqlState(db, tw, resolved), cfg))
    /\ UNCHANGED <<pipevars, fetchvars, tickvars,
                   httpvars, cachevars, parsevars, pqvars,
                   cfg, now, nexports, resolved, exported, last>>

NextSql ==
    \/ \E family \in SqlFamilies : SqlExport(family)
    \/ SqlNextScrape
    \/ SqlRestart

SpecSql == InitSql /\ [][NextSql]_vars

(***************************************************************************)
(* The two parsers on their own: one input is parsed by the fetch crate's  *)
(* parse and by the driver crate's parse with instance and job unset.      *)
(***************************************************************************)
InitParsers ==
    /\ PipeInit("-")
    /\ instance = None
    /\ job = None
    /\ buffer = 1
    /\ input \in Bodies
    /\ SqlIdle
    /\ FetchIdle
    /\ TickIdle
    /\ HttpIdle
    /\ PqIdle
    /\ CacheIdle
    /\ parsers = None

ParseBoth ==
    /\ parsers = None
    /\ parsers' = Some([fetch |-> fetch_parse(input),
                        driver |-> parse(None, None, input)])
    /\ UNCHANGED <<pipevars, sqlvars, fetchvars, tickvars, httpvars, pqvars,
                   cachevars>>

NextParsers == ParseBoth

SpecParsers == InitParsers /\ [][NextParsers]_vars

(***************************************************************************)
(* The caches of the normalizer: the same families are written to two      *)
(* databases, to one by a TableWriter that keeps its caches and to the     *)
(* other by one that is opened anew, its caches empty, before every export.*)
(***************************************************************************)
\* the series id each sample was given
SeriesIds(res) ==
    { [metric |-> e.metric, labels |-> e.labels, series_id |-> e.series_id] :
        e \in res }

InitCache ==
    /\ PipeInit("-")
    /\ instance = None
    /\ job = None
    /\ buffer = 1
    /\ input = <<>>
    /\ cfg \in SqlConfigs(SourcesUnlabelled \cup SourcesLabelled,
                         {None, Some("web")})
    /\ db = Open(SqlState(EmptyDb, TableWriter_new, {}), cfg).db
    /\ tw = Open(SqlState(EmptyDb, TableWriter_new, {}), cfg).tw
    /\ now = 1
    /\ nexports = 0
    /\ resolved = {}
    /\ exported = {}
    /\ last = None
    /\ FetchIdle
    /\ TickIdle
    /\ HttpIdle
    /\ PqIdle
    /\ ParseIdle
    /\ fresh = Some([db |-> db, ids |-> {}])

\* the export by the writer that o, the opening of its database, has made
reopened_export(o, timestamp_millis, family) ==
    process_metric_family(SqlState(o.db, o.tw, {}), timestamp_millis, family)

FreshExported(out) ==
    fresh' = Some([db |-> out.st.db,
                   ids |-> Unwrap(fresh).ids \cup SeriesIds(out.st.res)])

\* one family is exported by both writers
CacheExport(family) ==
    /\ nexports < MaxExports
    /\ nexports' = nexports + 1
    /\ SqlExported(process_metric_family(
                       SqlState(db, tw, resolved), now, family),
                   family)
    /\ FreshExported(reopened_export(
                         Open(SqlState(Unwrap(fresh).db, TableWriter_new, {}),
                              cfg),
                         now, family))
    /\ UNCHANGED <<pipevars, fetchvars, tickvars, httpvars, pqvars, parsevars,
                   cfg, now, last>>

\* the next scrape arrives
CacheNextScrape ==
    /\ now < MaxTs
    /\ now' = now + 1
    /\ UNCHANGED <<pipevars, fetchvars, tickvars,
                   httpvars, pqvars, cachevars, parsevars,
                   cfg, db, tw, nexports, resolved, exported, last>>

NextCache ==
    \/ \E family \in SqlFamilies : CacheExport(family)
    \/ CacheNextScrape

SpecCache == InitCache /\ [][NextCache]_vars

(***************************************************************************)
(* prom2sqlite/src/table.rs on scrapes that go wrong: values that do not   *)
(* parse, a metric declared again with another type or help, timestamps    *)
(* that repeat or go back.                                                 *)
(***************************************************************************)
SqlErrSample(labels, value) ==
    [var |-> "m", labels |-> labels, value |-> value]

SqlErrFamily(type, help, samples) ==
    [var |-> Some("m"), help |-> help, type |-> type, samples |-> samples]

\* families of m: a gauge with one sample, of value 1 or 3; gauges of two
\* samples of which the second or the first has no number for its value; a
\* counter with a help text; a histogram; a summary with a labelled sample
SqlErrFamilies ==
    { SqlErrFamily("gauge", None, <<SqlErrSample(<<>>, v)>>) :
        v \in {"1", "3"} }
    \cup
    { SqlErrFamily("gauge", None,
                   <<SqlErrSample(<<>>, "1"),
                     SqlErrSample(<< <<"a", "1">> >>, "x")>>),
      SqlErrFamily("gauge", None,
                   <<SqlErrSample(<< <<"a", "1">> >>, "x"),
                     SqlErrSample(<<>>, "1")>>),
      SqlErrFamily("counter", Some("h"), <<SqlErrSample(<<>>, "1")>>),
      SqlErrFamily("histogram", None, <<SqlErrSample(<<>>, "1")>>),
      SqlErrFamily("summary", None,
                   <<SqlErrSample(<< <<"a", "1">> >>, "1")>>) }

InitSqlErr ==
    /\ PipeInit("-")
    /\ instance = None
    /\ job = None
    /\ buffer = 1
    /\ input = <<>>
    /\ cfg \in SqlConfigs(SourcesUnlabelled \cup SourcesLabelled, {None})
    /\ db = Open(SqlState(EmptyDb, TableWriter_new, {}), cfg).db
    /\ tw = Open(SqlState(EmptyDb, TableWriter_new, {}), cfg).tw
    /\ now = 1
    /\ nexports = 0
    /\ resolved = {}
    /\ exported = {}
    /\ last = None
    /\ FetchIdle
    /\ TickIdle
    /\ HttpIdle
    /\ PqIdle
    /\ CacheIdle
    /\ ParseIdle

\* history: the export, its result and the value rows it added
SqlErrLogged(out, family) ==
    last' = Some([family |-> family, ts |-> now, r |-> out.r,
                  added |-> out.st.db.rows \ db.rows])

\* writer.write hands one family of the scrape to process_metric_family
SqlErrExport(family) ==
    /\ nexports < MaxExports
    /\ nexports' = nexports + 1
    /\ SqlExported(process_metric_family(
                       SqlState(db, tw, resolved), now, family),
                   family)
    /\ SqlErrLogged(process_metric_family(
                        SqlState(db, tw, resolved), now, family),
                    family)
    /\ UNCHANGED <<pipevars, fetchvars, tickvars,
                   httpvars, cachevars, parsevars, pqvars, cfg, now>>

\* a scrape arrives whose timestamp is another one, later or earlier
SqlScrapeAt(ts) ==
    /\ ts # now
    /\ now' = ts
    /\ UNCHANGED <<pipevars, fetchvars, tickvars,
                   httpvars, cachevars, parsevars, pqvars,
                   cfg, db, tw, nexports, resolved, exported, last>>

NextSqlErr ==
    \/ \E family \in SqlErrFamilies : SqlErrExport(family)
    \/ \E ts \in 1..MaxTs : SqlScrapeAt(ts)
    \/ SqlRestart

SpecSqlErr == InitSqlErr /\ [][NextSqlErr]_vars

(***************************************************************************)
(* prom2sqlite's writer on whole scrapes: writer_loop hands every entry of *)
(* the queue to TableWriter::write, which calls process_metric_family for  *)
(* each family the scrape parses to.                                       *)
(***************************************************************************)
MaxScrapes == 2

\* what a scrape parses to, None when it does not parse: no family; a gauge
\* m; a gauge m whose first sample has no number for its value, then a gauge
\* n; a gauge m whose second sample has no number, then a gauge m; a
\* histogram m, then a gauge m; a gauge n, a gauge m whose second sample has
\* no number, then a summary m
WriteScrapes ==
    { None, Some(<<>>) }
    \cup
    { Some(<<SqlErrFamily("gauge", None, <<SqlErrSample(<<>>, v)>>)>>) :
        v \in {"1", "3"} }
    \cup
    { Some(<<SqlErrFamily("gauge", None,
                          <<SqlErrSample(<< <<"a", "1">> >>, "x"),
                            SqlErrSample(<<>>, "1")>>),
             SqlFamily("n", <<SqlSample("n", <<>>)>>)>>),
      Some(<<SqlErrFamily("gauge", None,
                          <<SqlErrSample(<<>>, "1"),
                            SqlErrSample(<< <<"a", "1">> >>, "x")>>),
             SqlErrFamily("gauge", None, <<SqlErrSample(<<>>, "3")>>)>>),
      Some(<<SqlErrFamily("histogram", None, <<SqlErrSample(<<>>, "1")>>),
             SqlErrFamily("gauge", None, <<SqlErrSample(<<>>, "1")>>)>>),
      Some(<<SqlFamily("n", <<SqlSample("n", <<>>)>>),
             SqlErrFamily("gauge", None,
                          <<SqlErrSample(<<>>, "1"),
                            SqlErrSample(<< <<"a", "1">> >>, "x")>>),
             SqlErrFamily("summary", None,
                          <<SqlErrSample(<< <<"a", "1">> >>, "1")>>)>>) }

\* the body of write's loop once process_metric_family has answered out:
\* result turns false on a false answer; history: the call, its answer and
\* the value rows it added
write_call(w, out, timestamp_millis, family) ==
    [st |-> out.st,
     result |-> w.result /\ out.r,
     calls |-> Append(w.calls,
                      [op |-> "export", ts |-> timestamp_millis,
                       family |-> family, r |-> out.r,
                       added |-> out.st.db.rows \ w.st.db.rows])]

\* variant: the loop is left at the first family that is not stored
RECURSIVE write_from_Stops(_, _, _, _)
write_from_Stops(w, timestamp_millis, families, i) ==
    IF i > Len(families) \/ ~w.result THEN w
    ELSE write_from_Stops(
             write_call(w, process_metric_family(w.st, timestamp_millis,
                                                 families[i]),
                        timestamp_millis, families[i]),
             timestamp_millis, families, i + 1)

\* TableWriter::write: the loop over the families, from family i on
RECURSIVE write_from(_, _, _, _)
write_from(w, timestamp_millis, families, i) ==
    IF i > Len(families) THEN w
    ELSE write_from(
             write_call(w, process_metric_family(w.st, timestamp_millis,
                                                 families[i]),
                        timestamp_millis, families[i]),
             timestamp_millis, families, i + 1)

\* TableWriter::write on what the exposition parsed to
write(st, timestamp_millis, parsed) ==
    IF parsed = None
    THEN [st |-> st, result |-> FALSE, calls |-> <<>>]
    ELSE write_from([st |-> st, result |-> TRUE, calls |-> <<>>],
                    timestamp_millis, Unwrap(parsed), 1)

InitWrite ==
    /\ PipeInit("http://host-a:9100/metrics")
    /\ instance = None
    /\ job = None
    /\ buffer \in 1..MaxScrapes
    /\ input = <<>>
    /\ cfg \in SqlConfigs({<<"http://host-a:9100/metrics", None>>},
                          {None, Some("web")})
    /\ db = Open(SqlState(EmptyDb, TableWriter_new, {}), cfg).db
    /\ tw = Open(SqlState(EmptyDb, TableWriter_new, {}), cfg).tw
    /\ now = 1
    /\ nexports = 0
    /\ resolved = {}
    /\ exported = {}
    /\ last = None
    /\ FetchIdle
    /\ TickIdle
    /\ HttpIdle
    /\ PqIdle
    /\ CacheIdle
    /\ ParseIdle

\* collect: the scrape fetched is offered to the queue, and dropped when
\* the queue is full
SqlCollected(parsed) ==
    /\ main = "polling"
    /\ Len(enqueued) < MaxScrapes
    /\ queue' = try_send(queue, buffer,
                         [ts |-> Len(enqueued) + 1, parsed |-> parsed]).queue
    /\ enqueued' = IF try_send(queue, buffer,
                               [ts |-> Len(enqueued) + 1,
                                parsed |-> parsed]).ok
                   THEN Append(enqueued, Len(enqueued) + 1)
                   ELSE enqueued
    /\ UNCHANGED <<target, instance, job, buffer, input, main, tasks,
                   writer, calls, processed, runvars,
                   sqlvars, fetchvars, tickvars,
                   httpvars, cachevars, parsevars, pqvars>>

\* the state write leaves, and the history of its calls
SqlWritten(w, entry) ==
    /\ db' = w.st.db
    /\ tw' = w.st.tw
    /\ resolved' = w.st.res
    /\ calls' = calls \o w.calls
    /\ nexports' = nexports + Len(w.calls)
    /\ exported' = exported
          \cup { Unwrap(w.calls[i].family.var) :
                   i \in { j \in 1..Len(w.calls) : w.calls[j].r } }
    /\ now' = entry.ts
    /\ processed' = Append(processed, entry.ts)

\* writer_loop: recv() yields an entry, which is handed to writer.write;
\* the result of write is not looked at
SqlWrite ==
    /\ writer = "running"
    /\ queue # <<>>
    /\ queue' = recv(queue).queue
    /\ SqlWritten(write(SqlState(db, tw, resolved), recv(queue).entry.ts,
                        recv(queue).entry.parsed),
                  recv(queue).entry)
    /\ UNCHANGED <<target, instance, job, buffer, input, main, tasks,
                   writer, enqueued, runvars,
                   cfg, last, fetchvars, tickvars,
                   httpvars, cachevars, parsevars, pqvars>>

NextWrite ==
    \/ \E parsed \in WriteScrapes : SqlCollected(parsed)
    \/ SqlWrite

SpecWrite == InitWrite /\ [][NextWrite]_vars

(***************************************************************************)
(* Properties of the pipeline (Spec, FairSpec).                            *)
(***************************************************************************)
QueuedTs == { queue[i].ts : i \in 1..Len(queue) }
ProcessedTs == { processed[i] : i \in 1..Len(processed) }
ExportCalls == { c \in 1..Len(calls) : calls[c].op = "export" }
CloseCalls == { c \in 1..Len(calls) : calls[c].op = "close" }

\* the step in which collect task t ends its fetch with a scrape in hand
Offers(t) == tasks[t] = "fetching" /\ tasks'[t] \in {"sent", "dropped"}

\* C1: a scrape offered to a queue that already holds `buffer` entries is
\* dropped and the queue is left as it was, a scrape offered to a queue with
\* room is appended; the queue never holds more than `buffer` entries; an
\* offer is never made to wait (the collect step and the tick stay enabled
\* whatever the queue holds); the writer receives the accepted scrapes, each
\* once, and never a dropped one.
C1_QueueFullDrop ==
    /\ [](/\ Len(queue) <= buffer
          /\ \A t \in 1..MaxTicks :
                /\ tasks[t] = "fetching"
                     => \A b \in PollBodies : ENABLED CollectOk(t, b)
                /\ (main = "polling" /\ tasks[t] = "unspawned"
                      /\ \A u \in 1..(t - 1) : tasks[u] # "unspawned")
                     => ENABLED Tick(t)
                /\ tasks[t] = "dropped" => t \notin QueuedTs \cup ProcessedTs
                /\ tasks[t] = "sent" => (t \in QueuedTs) # (t \in ProcessedTs)
          /\ \A i, j \in 1..Len(processed) :
                processed[i] = processed[j] => i = j)
    /\ [][\A t \in 1..MaxTicks : Offers(t) =>
            IF Len(queue) >= buffer
            THEN queue' = queue /\ tasks'[t] = "dropped"
            ELSE /\ tasks'[t] = "sent"
                 /\ Len(queue') = Len(queue) + 1
                 /\ SubSeq(queue', 1, Len(queue)) = queue
                 /\ queue'[Len(queue')].ts = t]_vars

\* C1 witness: depth 1, the first of two sends accepted, the second dropped,
\* and the writer has since processed exactly the first.
C1_Witness ==
    /\ buffer = 1
    /\ tasks[1] = "sent"
    /\ tasks[2] = "dropped"
    /\ processed = <<1>>
    /\ queue = <<>>

\* C2: once the interrupt has been received the writer is never found exited
\* with an accepted entry unprocessed, and eventually every accepted entry
\* has been processed exactly once, the writer has exited and the run has
\* returned.
C2_InterruptDrains ==
    /\ [](writer = "exited" =>
            /\ queue = <<>>
            /\ \A t \in 1..MaxTicks : tasks[t] = "sent" => t \in ProcessedTs)
    /\ (main # "polling") ~>
            (/\ writer = "exited"
             /\ main = "returned"
             /\ queue = <<>>)

\* C3: once the polling loop has returned no scrape is added to the queue.
C3_ClosedOnExit ==
    [][main # "polling" => Len(queue') <= Len(queue)]_vars

\* C4: when the run has returned, close() has been called on the exporter
\* exactly once, and it is the last call made on it.
C4_CloseOnce ==
    main = "returned" =>
        /\ Cardinality(CloseCalls) = 1
        /\ calls[Len(calls)].op = "close"

(***************************************************************************)
(* Properties of parse and of what the writer exports (SpecStdin).         *)
(***************************************************************************)
\* the metricfamily pairs of the input, <<>> when the grammar rejects it
InputFamilies ==
    LET tree == PrometheusParser_parse(input)
    IN  IF tree = None THEN <<>> ELSE Unwrap(tree)

AnyRejected ==
    \E f \in 1..Len(InputFamilies) :
        MetricFamily_parse(instance, job, InputFamilies[f]) = None

DescriptorAfterSample(fam) ==
    \E i, j \in 1..Len(fam) :
        /\ i < j
        /\ fam[i].kind = "sample"
        /\ fam[j].kind \in {"help", "type"}

\* the input positions of the samples the exporter has been handed
ExportedPos ==
    UNION { { calls[c].family.samples[k].pos :
                k \in 1..Len(calls[c].family.samples) } : c \in ExportCalls }

\* C5: when a family of the scrape is rejected, the writer exports none of
\* the scrape's families.
C5_AllOrNothing ==
    (processed # <<>> /\ AnyRejected) => ExportCalls = {}

\* C6: a family in which a descriptor follows a sample is rejected, and no
\* sample of it, before or after the descriptor, is handed to export.
C6_FamilyClosure ==
    \A f \in 1..Len(InputFamilies) :
        DescriptorAfterSample(InputFamilies[f]) =>
            /\ MetricFamily_parse(instance, job, InputFamilies[f]) = None
            /\ \A k \in 1..Len(InputFamilies[f]) :
                   InputFamilies[f][k].pos \notin ExportedPos

\* C6 witness: the scrape has been processed, one of its families has a
\* descriptor after a sample, and another family of it was exported.
C6_Witness ==
    /\ processed # <<>>
    /\ \E f \in 1..Len(InputFamilies) :
           DescriptorAfterSample(InputFamilies[f])
    /\ ExportCalls # {}

\* C7: every exported sample's labels are ("instance", I) if set, then
\* ("job", J) if set, then the labels of its line in wire order.
C7_LabelAugmentation ==
    \A c \in ExportCalls :
        \A k \in 1..Len(calls[c].family.samples) :
            LET s == calls[c].family.samples[k]
            IN  s.labels = OptLabel("instance", instance)
                           \o OptLabel("job", job)
                           \o input[s.pos].labels

\* C8: every exported family has a metric name, and every sample's var is
\* that name or, in a histogram or summary, a derived name of it.
C8_FamilyNames ==
    \A c \in ExportCalls :
        LET mf == calls[c].family
        IN  /\ IsSome(mf.var)
            /\ \A k \in 1..Len(mf.samples) :
                   \/ mf.samples[k].var = Unwrap(mf.var)
                   \/ /\ mf.type \in {"histogram", "summary"}
                      /\ mf.samples[k].var \in DerivedNames(Unwrap(mf.var))

MetricRows(name) == { row \in db.metric : row.name = name }

\* C9: for every metric name, whatever exports and restarts took place, the
\* metric table holds at most one row of that name, and exactly one once a
\* family of that name was exported without a storage error.
C9_InterningIdempotence ==
    \A name \in { Unwrap(family.var) : family \in SqlFamilies } :
        /\ Cardinality(MetricRows(name)) <= 1
        /\ name \in exported => Cardinality(MetricRows(name)) = 1

\* C9: a family of m was exported after a restart emptied the caches (its id
\* came from the SELECT), both metrics have been exported, and each has its
\* one row.
C9_Witness ==
    /\ exported = {"m", "n"}
    /\ \E e \in resolved : e.metric = "m" /\ e.metric_via = "select"
    /\ \E e \in resolved : e.metric = "m" /\ e.metric_via = "insert"
    /\ Cardinality(MetricRows("m")) = 1
    /\ Cardinality(MetricRows("n")) = 1

\* C10: two samples of the same metric with identical labels resolve to the
\* same series_id, in one scrape, across scrapes and across restarts,
\* whatever other series of the metric were created in between.
C10_SeriesSameSet ==
    \A e1, e2 \in resolved :
        (e1.metric = e2.metric /\ e1.labels = e2.labels)
            => e1.series_id = e2.series_id

\* C10: a series was inserted for some labels; later, after a restart, the
\* same labels were looked up in the database when a second series of the
\* metric matched the query as well, and the first one was returned.
C10_Witness ==
    \E e1, e2 \in resolved :
        /\ e1.metric = e2.metric
        /\ e1.labels = e2.labels
        /\ e1.via = "insert"
        /\ e2.via = "select"
        /\ Cardinality(e2.matched) >= 2
        /\ e1.series_id = e2.series_id

\* the (name, value) pairs of a label list, whatever their order
LabelPairs(labels) == { labels[i] : i \in 1..Len(labels) }

\* C11: two samples of the same metric whose label sets differ resolve to
\* distinct series_ids, also when one set is part of the other or is empty.
C11_SeriesDifferentSets ==
    \A e1, e2 \in resolved :
        (e1.metric = e2.metric /\ LabelPairs(e1.labels) # LabelPairs(e2.labels))
            => e1.series_id # e2.series_id

\* the label value ids in the label_set rows of a series
SeriesLabelValues(id) ==
    { row.label_value_id : row \in { r \in db.label_set : r.series_id = id } }

\* C12: two samples of the same metric whose labels are the same pairs in
\* another order resolve to the same series_id, and no two series rows of a
\* metric hold the same set of label values.
C12_OrderIndependent ==
    /\ \A e1, e2 \in resolved :
          (e1.metric = e2.metric
             /\ LabelPairs(e1.labels) = LabelPairs(e2.labels))
              => e1.series_id = e2.series_id
    /\ \A s1, s2 \in db.series :
          (s1.metric_id = s2.metric_id
             /\ SeriesLabelValues(s1.id) = SeriesLabelValues(s2.id))
              => s1.id = s2.id

\* C12: a series was inserted for a=1,b=1, and the sample b=1,a=1 was then
\* looked up in the database and resolved to it, with that one series row.
C12_Witness ==
    \E e1, e2 \in resolved :
        /\ e1.metric = e2.metric
        /\ e1.labels = << <<"a", "1">>, <<"b", "1">> >>
        /\ e2.labels = << <<"b", "1">>, <<"a", "1">> >>
        /\ e1.via = "insert"
        /\ e2.via = "select"
        /\ e1.series_id = e2.series_id
        /\ Cardinality(db.series) = 1

\* what export of the family does from the current state at timestamp `now`
ExportOutcome(family) ==
    process_metric_family(SqlState(db, tw, resolved), now, family)

\* every sample of the family was submitted before, with the same labels
SubmittedBefore(family) ==
    \A i \in 1..Len(family.samples) :
        \E e \in resolved :
            /\ e.metric = Unwrap(family.var)
            /\ e.labels = family.samples[i].labels

\* the label sets of the family's samples are pairwise different
DistinctLabelSets(family) ==
    \A i, j \in 1..Len(family.samples) :
        LabelPairs(family.samples[i].labels)
            = LabelPairs(family.samples[j].labels) => i = j

\* the rows of the metric's value table at a timestamp
ValueRows(d, name, ts) ==
    { row \in d.rows : row.table = name /\ row.timestamp = ts }

\* the interning tables
Interned(d) == <<d.metric, d.label, d.label_value, d.series, d.label_set>>

\* C13: exporting a family whose samples were all submitted before adds no
\* row to metric, label, label_value, series or label_set, and, for a scalar
\* family at a timestamp not yet in the value table and with pairwise
\* different label sets, the value table grows by one row per sample.
C13_RepeatedScrape ==
    [][\A family \in SqlFamilies :
         (SqlExport(family) /\ SubmittedBefore(family)) =>
            /\ Interned(db') = Interned(db)
            /\ db'.tables = db.tables
            /\ (family.type \in ScalarTypes
                  /\ DistinctLabelSets(family)
                  /\ ValueRows(db, Unwrap(family.var), now) = {})
                 => Cardinality(db'.rows)
                      = Cardinality(db.rows) + Len(family.samples)]_vars

\* C14: one export of a scalar family whose values parse and whose label
\* sets are pairwise different, at a timestamp not yet in the value table,
\* returns true and leaves one row per sample at that timestamp, each on a
\* series of its own and holding the sample's value.
C14_ValueRows ==
    [][\A family \in SqlFamilies :
         (/\ SqlExport(family)
          /\ family.type \in ScalarTypes
          /\ \A i \in 1..Len(family.samples) :
                ParseF64(family.samples[i].value) # None
          /\ DistinctLabelSets(family)
          /\ ValueRows(db, Unwrap(family.var), now) = {}) =>
            /\ ExportOutcome(family).r
            /\ Cardinality(ValueRows(db', Unwrap(family.var), now))
                 = Len(family.samples)
            /\ \A r1, r2 \in ValueRows(db', Unwrap(family.var), now) :
                  r1.series_id = r2.series_id => r1 = r2
            /\ \A i \in 1..Len(family.samples) :
                  \E row \in ValueRows(db', Unwrap(family.var), now) :
                      row.value = Unwrap(ParseF64(family.samples[i].value))
      ]_vars

\* the step in which the writer takes the entry at the head of the queue
Receives == writer = "running" /\ queue # <<>> /\ processed' # processed

\* the families of the scrape at the head of the queue
HeadFamilies ==
    IF IsSome(Head(queue).parsed) THEN Unwrap(Head(queue).parsed) ELSE <<>>

\* the call stored the family it was given: one value row of the metric's
\* table, at the scrape's timestamp, for each sample of a scalar family; a
\* histogram or summary family, which the normalizer accepts without value
\* rows, has none to store
Persisted(call) ==
    IF call.family.type \in ScalarTypes
    THEN /\ Cardinality(call.added) = Len(call.family.samples)
         /\ \A row \in call.added :
               /\ row.table = Unwrap(call.family.var)
               /\ row.timestamp = call.ts
    ELSE call.added = {}

\* C15: when the writer takes a scrape, process_metric_family is called for
\* every family of it, in order, whatever the calls before it returned; each
\* call returns false exactly when the family was not persisted; and the
\* writer is still running afterwards, with the rest of the queue to
\* process.
C15_ExportFalseNotFatal ==
    [][Receives =>
         /\ Len(calls') = Len(calls) + Len(HeadFamilies)
         /\ SubSeq(calls', 1, Len(calls)) = calls
         /\ \A i \in 1..Len(HeadFamilies) :
               /\ calls'[Len(calls) + i].family = HeadFamilies[i]
               /\ calls'[Len(calls) + i].ts = Head(queue).ts
               /\ calls'[Len(calls) + i].r
                    <=> Persisted(calls'[Len(calls) + i])
         /\ queue' = Tail(queue)
         /\ writer' = "running"
         /\ processed' = Append(processed, Head(queue).ts)]_vars

\* the first family of the first scrape was not persisted, the family after
\* it in the same scrape was, and so was a family of the second scrape
C15_Witness ==
    /\ Len(processed) = 2
    /\ Len(calls) >= 3
    /\ ~calls[1].r
    /\ calls[2].r
    /\ calls[2].ts = calls[1].ts
    /\ calls[2].added # {}
    /\ calls[3].r
    /\ calls[3].ts # calls[1].ts
    /\ calls[3].added # {}


\* C16: when the parse of the received scrape fails, no call is made on the
\* exporter, the entry is gone from the queue, and the writer is still
\* running; whatever came before, the entries that parse are exported.
C16_ParseFailDiscarded ==
    [][Receives =>
         /\ queue' = Tail(queue)
         /\ writer' = "running"
         /\ processed' = Append(processed, Head(queue).ts)
         /\ IF parse(instance, job, Head(queue).body) = None
            THEN calls' = calls
            ELSE calls' = calls \o ExportAll(Head(queue).ts,
                     Unwrap(parse(instance, job, Head(queue).body)), 1)]_vars

\* C16: the first scrape did not parse and nothing was exported for it, the
\* second was processed after it and its family was exported.
C16_Witness ==
    /\ processed = <<1, 2>>
    /\ tasks[1] = "sent"
    /\ \A c \in ExportCalls : calls[c].ts = 2
    /\ ExportCalls # {}

\* the step in which the fetch of collect task t fails
FetchFails(t) == tasks[t] = "fetching" /\ tasks'[t] = "failed"

\* C17: a failed fetch leaves the queue, the polling loop and the writer as
\* they were; after it the loop still takes its next tick, and a fetch in
\* flight still ends with its scrape offered to the queue.
C17_FetchFailContinues ==
    /\ [][\A t \in 1..MaxTicks :
            FetchFails(t) =>
               /\ queue' = queue
               /\ main' = main
               /\ writer' = writer
               /\ calls' = calls
               /\ \A u \in 1..MaxTicks : u # t => tasks'[u] = tasks[u]]_vars
    /\ [](\A t \in 1..MaxTicks :
            (tasks[t] = "failed" /\ main = "polling") =>
               /\ \A u \in 1..MaxTicks :
                     (/\ tasks[u] = "unspawned"
                      /\ \A v \in 1..(u - 1) : tasks[v] # "unspawned")
                        => ENABLED Tick(u)
               /\ \A u \in 1..MaxTicks :
                     tasks[u] = "fetching" =>
                        /\ \A b \in PollBodies : ENABLED CollectOk(u, b)
                        /\ Len(queue) < buffer =>
                              \A b \in PollBodies :
                                 try_send(queue, buffer,
                                          [ts |-> u, body |-> b]).ok)

\* C17: the first fetch failed, the loop is still polling, and the second
\* scrape was fetched, enqueued and processed.
C17_Witness ==
    /\ tasks[1] = "failed"
    /\ tasks[2] = "sent"
    /\ 2 \in ProcessedTs
    /\ main = "polling"

\* C18: when a response has arrived, fetch returns Ok with the body and
\* with the Date header's time in milliseconds if the header is there and
\* parses as RFC 2822, with the wall clock if it is absent or does not parse.
C18_DateHeader ==
    (/\ IsSome(fetched)
     /\ Unwrap(fetched).end # "collecting"
     /\ Unwrap(fetched) # FetchErr
     /\ response.read = "ok") =>
        Unwrap(fetched) =
            FetchOk(IF IsSome(response.date)
                       /\ IsSome(parse_from_rfc2822(Unwrap(response.date)))
                    THEN Unwrap(parse_from_rfc2822(Unwrap(response.date)))
                    ELSE response.wall,
                    response.body)

\* the place of a scrape in the order of insertion into the queue
EnqueuedAt(ts) == CHOOSE i \in 1..Len(enqueued) : enqueued[i] = ts

\* C19: the writer receives the entries in the order of their insertion
\* into the queue, whatever the order of the ticks that fetched them, and
\* every export call for a scrape enqueued earlier comes before any export
\* call for a scrape enqueued later.
C19_InsertionOrder ==
    /\ Len(processed) <= Len(enqueued)
    /\ processed = SubSeq(enqueued, 1, Len(processed))
    /\ \A i \in 1..Len(queue) : queue[i].ts = enqueued[Len(processed) + i]
    /\ \A c \in ExportCalls :
          \E i \in 1..Len(processed) : processed[i] = calls[c].ts
    /\ \A c1, c2 \in ExportCalls :
          c1 < c2 => EnqueuedAt(calls[c1].ts) <= EnqueuedAt(calls[c2].ts)

\* C19: the scrape of the second tick was enqueued before the scrape of the
\* first, and the writer has exported the second scrape's family before the
\* first scrape's.
C19_Witness ==
    /\ enqueued = <<2, 1>>
    /\ processed = <<2, 1>>
    /\ Len(calls) = 2
    /\ calls[1].ts = 2
    /\ calls[2].ts = 1

Accepts(fam) == MetricFamily_parse(instance, job, fam) # None
IsSampleLine(line) == line.kind = "sample"

\* the families of the input that MetricFamily::parse accepts, in the order
\* of the input, and the input positions of a family's sample lines
AcceptedFamilies == SelectSeq(InputFamilies, Accepts)
SamplePositions(fam) ==
    [k \in 1..Len(SelectSeq(fam, IsSampleLine)) |->
        SelectSeq(fam, IsSampleLine)[k].pos]

\* C20: when the scrape parses, the writer makes one export call per family
\* parse accepted, in the order the families stand in the input, each with
\* the scrape's timestamp and with the family's samples in the order of
\* their lines.
C20_OrderPreserved ==
    (processed # <<>> /\ PrometheusParser_parse(input) # None) =>
        /\ Len(calls) = Len(AcceptedFamilies)
        /\ \A c \in 1..Len(calls) :
              /\ calls[c].op = "export"
              /\ calls[c].ts = processed[1]
              /\ [k \in 1..Len(calls[c].family.samples) |->
                     calls[c].family.samples[k].pos]
                   = SamplePositions(AcceptedFamilies[c])
              /\ \A k \in 1..Len(calls[c].family.samples) :
                    LET s == calls[c].family.samples[k]
                    IN  /\ s.var = input[s.pos].name
                        /\ s.value = input[s.pos].arg

\* C20: the scrape held two families, the first with two samples; both were
\* exported, the first family first and its samples in the order of their
\* lines.
C20_Witness ==
    /\ processed # <<>>
    /\ Len(calls) = 2
    /\ calls[1].op = "export"
    /\ calls[2].op = "export"
    /\ Len(calls[1].family.samples) = 2
    /\ Len(calls[2].family.samples) = 1
    /\ calls[1].family.samples[1].pos = 1
    /\ calls[1].family.samples[2].pos = 2
    /\ calls[2].family.samples[1].pos = 3

(***************************************************************************)
(* Properties of the sample interval (SpecTick).                           *)
(***************************************************************************)
\* C21: ticks are never replayed as a burst: however long the polling loop
\* was kept from taking ticks, every tick it takes is at least one interval
\* after the tick before it, so at most one tick is taken at the instant the
\* loop resumes
C21_TickNonBurst ==
    \A i \in 2..Len(fired) : fired[i] - fired[i - 1] >= period

\* the loop missed ticks for three intervals, took one tick when it
\* resumed and the next one interval later
C21_Witness ==
    \E i \in 1..(Len(fired) - 2) :
        /\ fired[i + 1] >= fired[i] + 3 * period
        /\ fired[i + 2] = fired[i + 1] + period

(***************************************************************************)
(* Properties of the run from its first line (SpecRun).                    *)
(***************************************************************************)
NoTaskSpawned == \A t \in 1..MaxTicks : tasks[t] = "unspawned"

\* C22, as stated: in stdin mode the run ends with one entry enqueued and
\* processed, the writer exited, no scrape task spawned, and success.
C22_StdinAlwaysSucceeds ==
    (target = "-" /\ main = "returned") =>
        /\ enqueued = <<1>>
        /\ queue = <<>>
        /\ processed = <<1>>
        /\ writer = "exited"
        /\ NoTaskSpawned
        /\ status = Some(ExitCode_SUCCESS)

\* C22: in stdin mode the polling loop is never entered and no scrape task
\* is spawned. When stdin is read as UTF-8 text, the run ends with exactly
\* one entry (wall clock, input) enqueued and received by the writer, the
\* queue empty, and, unless an export panicked, the writer exited after
\* exporting the families of the input and the status success; when an
\* export panicked, the families up to that one were exported, in order,
\* and the status is failure. When stdin
\* cannot be read, nothing is enqueued, the writer exits without having
\* received anything and the status is failure.
C22_StdinMode ==
    target = "-" =>
        /\ main \notin {"binding", "polling"}
        /\ NoTaskSpawned
        /\ main = "returned" =>
              IF read_to_string(input) = None
              THEN /\ enqueued = <<>>
                   /\ processed = <<>>
                   /\ calls = <<>>
                   /\ writer = "exited"
                   /\ status = Some(ExitCode_FAILURE)
              ELSE /\ enqueued = <<1>>
                   /\ processed = <<1>>
                   /\ queue = <<>>
                   /\ IF writer = "panicked"
                      THEN /\ calls # <<>>
                           /\ calls = SubSeq(
                                 writer_exports(1,
                                     parse(instance, job, input)),
                                 1, Len(calls))
                           /\ status = Some(ExitCode_FAILURE)
                      ELSE /\ calls = writer_exports(1,
                                          parse(instance, job, input))
                           /\ writer = "exited"
                           /\ status = Some(ExitCode_SUCCESS)

\* stdin held a family, the writer exported it and exited, the run returned
\* success
C22_Witness ==
    /\ target = "-"
    /\ main = "returned"
    /\ enqueued = <<1>>
    /\ processed = <<1>>
    /\ calls # <<>>
    /\ writer = "exited"
    /\ status = Some(ExitCode_SUCCESS)

\* C23: the run returns failure when the target is no URI, when the status
\* address cannot be bound, when stdin cannot be read and when the writer
\* task panicked, and success otherwise.
C23_ExitStatus ==
    main = "returned" =>
        status = IF \/ (target # "-" /\ parse_uri(target) = None)
                    \/ bind = "error"
                    \/ (target = "-" /\ read_to_string(input) = None)
                    \/ writer = "panicked"
                 THEN Some(ExitCode_FAILURE)
                 ELSE Some(ExitCode_SUCCESS)

\* C24: once the writer task has panicked the queue takes no entry: every
\* scrape fetched from then on is dropped; the polling loop is left only by
\* the interrupt; and the run, when it returns, returns failure.
C24_WriterFailure ==
    [][writer = "panicked" =>
         /\ queue' = <<>>
         /\ enqueued' = enqueued
         /\ \A t \in 1..MaxTicks :
               (tasks[t] = "fetching" /\ tasks'[t] # "fetching") =>
                   tasks'[t] \in {"dropped", "failed"}
         /\ (main = "polling" /\ main' # "polling") => Interrupt
         /\ (main = "polling" /\ tasks' # tasks) => main' = "polling"
         /\ main' = "returned" => status' = Some(ExitCode_FAILURE)]_vars

\* the writer panicked on the first scrape; a later scrape was fetched and
\* dropped though the queue had room; after the interrupt the run returned
\* failure
C24_Witness ==
    /\ writer = "panicked"
    /\ buffer >= 2
    /\ enqueued = <<1>>
    /\ \E t \in 2..MaxTicks : tasks[t] = "dropped"
    /\ main = "returned"
    /\ status = Some(ExitCode_FAILURE)

\* C25: the polling loop is left by the interrupt and by nothing else;
\* while it runs, the next tick can be taken, whatever failed before.
C25_OnlyInterruptEnds ==
    /\ [][(main = "polling" /\ main' # "polling") => Interrupt]_vars
    /\ [](main = "polling" =>
            \A t \in 1..MaxTicks :
                (/\ tasks[t] = "unspawned"
                 /\ \A u \in 1..(t - 1) : tasks[u] # "unspawned")
                => ENABLED Tick(t))

\* a scrape was dropped on a full queue, one did not parse, an export
\* failed, a status connection was served: the loop is still polling
C25_Witness ==
    /\ main = "polling"
    /\ \E t \in 1..MaxTicks : tasks[t] = "dropped"
    /\ events = {"parse error", "export failure"}
    /\ served > 0
    /\ writer = "running"

(***************************************************************************)
(* Properties of the status server (SpecHttp).                             *)
(***************************************************************************)
\* C28: in every binary the status server answers 200 for /, /metrics,
\* /-/healthy and /-/ready, 501 for /-/reload and /-/quit, and 404 for
\* every other path, whatever the method and the query.
C28_StatusRoutes ==
    IsSome(answer) =>
        Unwrap(answer) =
            IF uri_path(request.uri)
                 \in {"/", "/metrics", "/-/healthy", "/-/ready"} THEN 200
            ELSE IF uri_path(request.uri) \in {"/-/reload", "/-/quit"}
                 THEN 501
            ELSE 404

(***************************************************************************)
(* Properties of the normalizer on scrapes that go wrong (SpecSqlErr).     *)
(***************************************************************************)
\* the metric row of the family's name
DeclaredRow(family) ==
    CHOOSE row \in db.metric : row.name = Unwrap(family.var)

\* the family with the type and help its metric row holds
AsDeclared(family) ==
    [family EXCEPT !.type = DeclaredRow(family).type,
                   !.help = DeclaredRow(family).help]

\* C26: when the metric row of a family's name exists, exporting the family
\* leaves the metric table as it is (no new row, type and help unchanged),
\* and the export returns true whenever it would have returned true had the
\* family come with the type and help of the row.
C26_TypeMismatch ==
    [][\A family \in SqlErrFamilies :
         (SqlErrExport(family) /\ MetricRows(Unwrap(family.var)) # {}) =>
            /\ db'.metric = db.metric
            /\ ExportOutcome(AsDeclared(family)).r
                 => ExportOutcome(family).r]_vars

\* the rows stored under an id are the same rows
SameIds(rows) == \A r1, r2 \in rows : r1.id = r2.id => r1 = r2

\* the label values a series is made of
LabelSetOf(d, series_id) ==
    { ls \in d.label_set : ls.series_id = series_id }

\* C27: no step removes or changes a row of metric, label, label_value,
\* series, label_set or of a value table, or drops a value table; no id is
\* given twice, so an id keeps its name, value or series, and a series
\* keeps its label values.
C27_AppendOnly ==
    [][/\ db.metric \subseteq db'.metric
       /\ db.label \subseteq db'.label
       /\ db.label_value \subseteq db'.label_value
       /\ db.series \subseteq db'.series
       /\ db.label_set \subseteq db'.label_set
       /\ db.rows \subseteq db'.rows
       /\ db.tables \subseteq db'.tables
       /\ SameIds(db'.metric)
       /\ SameIds(db'.label)
       /\ SameIds(db'.label_value)
       /\ SameIds(db'.series)
       /\ \A row \in db.series :
             LabelSetOf(db', row.id) = LabelSetOf(db, row.id)
       /\ \A r1, r2 \in db'.rows :
             (/\ r1.table = r2.table
              /\ r1.series_id = r2.series_id
              /\ r1.timestamp = r2.timestamp) => r1 = r2]_vars

\* the metric was declared again with another type after its rows were
\* written, an export failed, and the rows, series and metric row are there
C27_Witness ==
    /\ IsSome(last)
    /\ ~Unwrap(last).r
    /\ Unwrap(last).family.type # DeclaredRow(Unwrap(last).family).type
    /\ Cardinality(db.rows) >= 2
    /\ Cardinality(db.series) >= 2
    /\ Cardinality(db.metric) = 1

\* the samples of the family whose value is no number
BadSamples(family) ==
    { i \in 1..Len(family.samples) :
        ParseF64(family.samples[i].value) = None }

\* the family cut after its first n samples
FirstSamples(family, n) ==
    [family EXCEPT !.samples = SubSeq(family.samples, 1, n)]

\* C29: when sample k is the first of a scalar family whose value is no
\* number, export returns false; the value rows that were there stay; the
\* rows added are those the export of samples 1..k-1 adds, each at the
\* scrape's timestamp with the value of one of these samples; nothing is
\* added for sample k or a later one.
C29_ValueParseFailure ==
    [][\A family \in SqlErrFamilies :
         (/\ SqlErrExport(family)
          /\ family.type \in ScalarTypes
          /\ BadSamples(family) # {}) =>
            /\ ~ExportOutcome(family).r
            /\ db.rows \subseteq db'.rows
            /\ db'.rows
                 = ExportOutcome(
                       FirstSamples(family, Min(BadSamples(family)) - 1)
                   ).st.db.rows
            /\ Cardinality(db'.rows \ db.rows) <= Min(BadSamples(family)) - 1
            /\ \A row \in db'.rows \ db.rows :
                  /\ row.table = Unwrap(family.var)
                  /\ row.timestamp = now
                  /\ \E i \in 1..(Min(BadSamples(family)) - 1) :
                        row.value
                          = Unwrap(ParseF64(family.samples[i].value))]_vars

\* the family's second sample had no number: export returned false and the
\* row of the first sample is in the table
C29_Witness ==
    /\ IsSome(last)
    /\ ~Unwrap(last).r
    /\ Unwrap(last).family.type \in ScalarTypes
    /\ BadSamples(Unwrap(last).family) = {2}
    /\ Cardinality(Unwrap(last).added) = 1
    /\ Unwrap(last).added \subseteq db.rows

\* the series the one sample of the family resolves to
SeriesOfSample(family) ==
    get_series_id_cached(
        get_metric_id_cached(SqlState(db, tw, resolved), family).st,
        get_metric_id_cached(SqlState(db, tw, resolved), family).r.val,
        family.samples[1].labels).r.val

\* the value rows of a series at a timestamp
RowsAt(d, name, series_id, ts) ==
    { row \in d.rows : /\ row.table = name
                       /\ row.series_id = series_id
                       /\ row.timestamp = ts }

\* C30: the export of a scalar sample whose value is a number, into a value
\* table that exists: when the table holds a row of the sample's series at
\* the scrape's timestamp, export returns false and the rows are as they
\* were; otherwise, whatever the timestamps of the series' other rows,
\* earlier or later, export returns true and the row is added.
C30_DuplicateTimestamp ==
    [][\A family \in SqlErrFamilies :
         (/\ SqlErrExport(family)
          /\ family.type \in ScalarTypes
          /\ Len(family.samples) = 1
          /\ BadSamples(family) = {}
          /\ Unwrap(family.var) \in db.tables) =>
            IF RowsAt(db, Unwrap(family.var), SeriesOfSample(family), now)
                 # {}
            THEN /\ ~ExportOutcome(family).r
                 /\ db'.rows = db.rows
            ELSE /\ ExportOutcome(family).r
                 /\ db'.rows = db.rows \cup
                      {[table |-> Unwrap(family.var),
                        series_id |-> SeriesOfSample(family),
                        timestamp |-> now,
                        value |-> Unwrap(ParseF64(
                                     family.samples[1].value))]}]_vars

\* a sample of value 3 arrived for a series and a timestamp whose row holds
\* 1: export returned false, added nothing, and the row still holds 1
C30_Witness ==
    /\ IsSome(last)
    /\ ~Unwrap(last).r
    /\ Unwrap(last).family.type = "gauge"
    /\ Len(Unwrap(last).family.samples) = 1
    /\ Unwrap(last).family.samples[1].value = "3"
    /\ Unwrap(last).added = {}
    /\ \E row \in db.rows :
          /\ row.table = "m"
          /\ row.timestamp = Unwrap(last).ts
          /\ row.value = 1
          /\ \A other \in db.rows :
                (other.table = "m" /\ other.timestamp = Unwrap(last).ts)
                    => other = row

(***************************************************************************)
(* Properties of the interning of labels and series (SpecSql).             *)
(***************************************************************************)
\* C31: the label table holds at most one row per name and the label_value
\* table at most one row per (label_id, value); a lookup of a name or of a
\* value that has its row returns the id of that row and leaves the
\* database as it is.
C31_LabelInterning ==
    /\ \A r1, r2 \in db.label : r1.name = r2.name => r1 = r2
    /\ \A r1, r2 \in db.label_value :
          (r1.label_id = r2.label_id /\ r1.value = r2.value) => r1 = r2
    /\ \A row \in db.label :
          /\ get_label_id_cached(SqlState(db, tw, resolved), row.name).r
               = Ok(row.id)
          /\ get_label_id_cached(SqlState(db, tw, resolved), row.name).st.db
               = db
    /\ \A row \in db.label_value :
          \A lrow \in db.label :
             lrow.id = row.label_id =>
                /\ get_label_value_cached(SqlState(db, tw, resolved),
                                          lrow.name, row.value).r
                     = Ok(row.id)
                /\ get_label_value_cached(SqlState(db, tw, resolved),
                                          lrow.name, row.value).st.db
                     = db

\* label b was stored after label a and is not in the cache, so the process
\* was restarted after both were stored; a is in the cache again: its id
\* came from the SELECT, and there is still one row of each
C31_Witness ==
    /\ "a" \in DOMAIN tw.label_cache
    /\ "b" \notin DOMAIN tw.label_cache
    /\ \E ra, rb \in db.label :
          ra.name = "a" /\ rb.name = "b" /\ ra.id < rb.id
    /\ Cardinality({ r \in db.label : r.name \in {"a", "b"} }) = 2

\* the id of the label_value row of a (name, value) pair
LabelValueId(pair) ==
    CHOOSE id \in { row.id : row \in db.label_value } :
        \E lv \in db.label_value, l \in db.label :
            /\ lv.id = id
            /\ lv.value = pair[2]
            /\ lv.label_id = l.id
            /\ l.name = pair[1]

\* the label value ids of a sample: those of instance and job when they are
\* configured, and those of its labels
SampleLabelValues(labels) ==
    { OptId(tw.instance)[i] : i \in 1..Len(OptId(tw.instance)) }
    \cup { OptId(tw.job)[i] : i \in 1..Len(OptId(tw.job)) }
    \cup { LabelValueId(pair) : pair \in LabelPairs(labels) }

\* C32: the series a sample resolved to holds, in label_set, exactly the
\* label value ids of the sample's labels and of the configured instance
\* and job, whether the series was created for the sample or found.
C32_SeriesLabelSet ==
    \A e \in resolved :
        SeriesLabelValues(e.series_id) = SampleLabelValues(e.labels)

(***************************************************************************)
(* Properties of the normalizer's handling of types (SpecSqlErr).          *)
(***************************************************************************)
\* in database d the sample's labels and label values have their rows and a
\* series of the metric of that name holds them all
SampleInterned(d, name, labels) ==
    \E mrow \in d.metric, srow \in d.series :
        /\ mrow.name = name
        /\ srow.metric_id = mrow.id
        /\ \A pair \in LabelPairs(labels) :
              \E l \in d.label, lv \in d.label_value :
                 /\ l.name = pair[1]
                 /\ lv.label_id = l.id
                 /\ lv.value = pair[2]
                 /\ [series_id |-> srow.id, label_value_id |-> lv.id]
                        \in d.label_set

\* C33: the export of a histogram or summary family returns true, leaves
\* the value tables and their rows as they are, and leaves the metric row
\* and, for every sample, its label, label_value and series rows stored.
C33_HistogramSummary ==
    [][\A family \in SqlErrFamilies :
         (SqlErrExport(family) /\ family.type \in {"histogram", "summary"})
          => /\ ExportOutcome(family).r
             /\ db'.tables = db.tables
             /\ db'.rows = db.rows
             /\ \A i \in 1..Len(family.samples) :
                   SampleInterned(db', Unwrap(family.var),
                                  family.samples[i].labels)]_vars

\* a summary with a labelled sample was the first export: it returned true,
\* there is no value table and no value row, and the metric, label,
\* label_value and series rows are stored
C33_Witness ==
    /\ IsSome(last)
    /\ Unwrap(last).family.type = "summary"
    /\ Unwrap(last).r
    /\ nexports = 1
    /\ db.tables = {}
    /\ db.rows = {}
    /\ \E row \in db.metric : row.name = "m" /\ row.type = "summary"
    /\ \E l \in db.label : l.name = "a"
    /\ Cardinality(db.series) = 1
    /\ Cardinality(db.label_set) >= 1


(***************************************************************************)
(* Properties of the Parquet exporter (SpecParquet).                       *)
(***************************************************************************)
\* the rows of the file
FileRows == { file[k] : k \in DOMAIN file }

\* C34: an export call of the Parquet exporter returned false exactly when
\* its family was not persisted: the file holds every row of a call that
\* returned true and no row of a call that returned false.
C34_ParquetPersisted ==
    \A i \in DOMAIN pqlog :
        \A k \in DOMAIN pqlog[i].family.samples :
            pqlog[i].r <=>
                PqRows(pqlog[i].family, pqlog[i].timestamp)[k] \in FileRows

\* C35: the metric row and its value table exist together: whenever a
\* counter, gauge or untyped family is exported while the metric table
\* holds a row of its name, the value table of that name is present.
C35_MetricTableTogether ==
    [][\A family \in SqlErrFamilies :
         (/\ SqlErrExport(family)
          /\ family.type \in ScalarTypes
          /\ MetricRows(Unwrap(family.var)) # {})
            => Unwrap(family.var) \in db.tables]_vars

(***************************************************************************)
(* Termination of the run (FairSpec).                                      *)
(***************************************************************************)
\* C36: once the interrupt has been received the writer exits and the run
\* returns, whether or not the fetch of a scrape task started before the
\* interrupt ever completes.
C36_TerminationAfterInterrupt ==
    [](main = "joining" => <>(writer = "exited" /\ main = "returned"))

(***************************************************************************)
(* Properties of the caches (SpecCache, SpecSql).                          *)
(***************************************************************************)
\* C37: after any sequence of exports the writer that kept its caches and
\* the writer that was restarted before every export have the same rows in
\* their databases (so the same metric, label, label_value and series ids)
\* and have given every sample the same series id.
C37_CachesTransparent ==
    /\ Unwrap(fresh).db = db
    /\ Unwrap(fresh).ids = SeriesIds(resolved)

\* three exports were made, a sample got its series id from the series
\* cache and its metric id from the metric cache, two series of one metric
\* exist, and the two writers agree
C37_Witness ==
    /\ nexports = MaxExports
    /\ \E e \in resolved : e.via = "cache" /\ e.metric_via = "cache"
    /\ \E s1, s2 \in db.series : s1.id # s2.id /\ s1.metric_id = s2.metric_id
    /\ db.rows # {}
    /\ Unwrap(fresh).db = db
    /\ Unwrap(fresh).ids = SeriesIds(resolved)

(***************************************************************************)
(* Properties of the two parsers (SpecParsers).                            *)
(***************************************************************************)
\* C38: the fetch crate's parser and the driver crate's parser, called with
\* instance and job unset, accept and reject the same families: both
\* reject the input or both return the same families, so a family in which
\* a descriptor follows a sample is returned by neither.
C38_ParsersAgree ==
    IsSome(parsers) => Unwrap(parsers).fetch = Unwrap(parsers).driver

(***************************************************************************)
(* Coherence of the caches with the database (SpecSql).                    *)
(***************************************************************************)
\* every entry of the metric, label and label_value caches holds the id of
\* the row the database has for its key
RowCachesCoherent ==
    /\ \A name \in DOMAIN tw.metric_cache :
          \E row \in db.metric :
             row.name = name /\ row.id = tw.metric_cache[name]
    /\ \A label \in DOMAIN tw.label_cache :
          \E row \in db.label :
             row.name = label /\ row.id = tw.label_cache[label]
    /\ \A key \in DOMAIN tw.label_value_cache :
          \E row \in db.label_value :
             /\ row.label_id = key[1]
             /\ row.value = key[2]
             /\ row.id = tw.label_value_cache[key]

\* every entry of the series cache holds the id of a series of the key's
\* metric whose label values are those of the key
SeriesCacheCoherent ==
    \A key \in DOMAIN tw.series_cache :
        \E row \in db.series :
           /\ row.id = tw.series_cache[key]
           /\ row.metric_id = key[1]
           /\ SeriesLabelValues(row.id)
                 = { key[2][i] : i \in DOMAIN key[2] }

\* the entries of cache before are entries of cache after
EntriesKept(before, after) ==
    \A key \in DOMAIN before :
        key \in DOMAIN after /\ after[key] = before[key]

\* the step leaves every cache entry as it is
CachesKept ==
    /\ EntriesKept(tw.metric_cache, tw'.metric_cache)
    /\ EntriesKept(tw.label_cache, tw'.label_cache)
    /\ EntriesKept(tw.label_value_cache, tw'.label_value_cache)
    /\ EntriesKept(tw.series_cache, tw'.series_cache)

\* C39: in every state every cache entry maps its key to the id of the row
\* the database holds for that key, and no step of a running process
\* changes or removes an entry: an entry is added with the id its lookup or
\* insert returned, also by an export that fails later.
C39_CacheCoherence ==
    /\ [](RowCachesCoherent /\ SeriesCacheCoherent)
    /\ [][SqlRestart \/ CachesKept]_vars
====
